---- MODULE Spec2Model ----
(***************************************************************************)
(* A model of the alphabet layer of biocpp-core: letters stored as ranks,  *)
(* the char <-> rank tables of the concrete alphabets, the generic base    *)
(* (alphabet/base.hpp), and the composites built on the tuple encoding     *)
(* (qualified, masked, structured_rna).                                    *)
(*                                                                         *)
(* A char is modelled by its value as a signed 8-bit char (-128..127); a   *)
(* table index is the value after static_cast<unsigned char> (0..255).     *)
(*                                                                         *)
(* Two of the range utilities are modelled next to the letters: the        *)
(* fixed-capacity string (ranges/container/small_string.hpp) and the       *)
(* single-pass view (ranges/views/single_pass_input.hpp).                  *)
(***************************************************************************)
EXTENDS Integers, Naturals, Sequences, FiniteSets, TLC

VARIABLES T, rank, other, op, arg, res

\* The storage and the size of a small_string.
VARIABLES data_, sz

\* The state objects of single_pass_input_views, the views (each the place
\* of the state object its state_ptr points to), the iterators obtained from
\* them (each the place of the view its view_ptr points to), and the elements
\* the iterators have been moved over so far.
VARIABLES state_ptr, views, iterators, yielded

string_vars == <<data_, sz>>

view_vars == <<state_ptr, views, iterators, yielded>>

vars == <<T, rank, other, op, arg, res, data_, sz, state_ptr, views, iterators, yielded>>

(***************************************************************************)
(* Characters                                                              *)
(***************************************************************************)

\* The values of char_type (char, 8 bit, signed).
Char == -128 .. 127

\* The values of the index type std::make_unsigned_t<char_type>.
Index == 0 .. 255

\* static_cast<index_t>(c): conversion of a char to its unsigned index.
index_t(c) == c % 256

\* static_cast<char_type>(i): conversion of an unsigned value to char.
char_type(i) == IF i % 256 >= 128 THEN (i % 256) - 256 ELSE i % 256

UpperLetters == <<"A", "B", "C", "D", "E", "F", "G", "H", "I", "J", "K", "L", "M",
                  "N", "O", "P", "Q", "R", "S", "T", "U", "V", "W", "X", "Y", "Z">>

LowerLetters == <<"a", "b", "c", "d", "e", "f", "g", "h", "i", "j", "k", "l", "m",
                  "n", "o", "p", "q", "r", "s", "t", "u", "v", "w", "x", "y", "z">>

\* The value of a character literal ('A' is 65, ...).
Ord == [s \in {UpperLetters[i] : i \in 1 .. 26} \cup {LowerLetters[i] : i \in 1 .. 26}
              \cup {"!", "(", "*", "-", ";", "~"} |->
          IF \E i \in 1 .. 26 : UpperLetters[i] = s
            THEN 64 + (CHOOSE i \in 1 .. 26 : UpperLetters[i] = s)
          ELSE IF \E i \in 1 .. 26 : LowerLetters[i] = s
            THEN 96 + (CHOOSE i \in 1 .. 26 : LowerLetters[i] = s)
          ELSE CASE s = "!" -> 33
                 [] s = "(" -> 40
                 [] s = "*" -> 42
                 [] s = "-" -> 45
                 [] s = ";" -> 59
                 [] s = "~" -> 126]

\* detail::is_lower / to_lower / to_upper: ASCII letters only, other chars unchanged.
is_lower(c) == c \in 97 .. 122

is_upper(c) == c \in 65 .. 90

to_lower(c) == IF is_upper(c) THEN c + 32 ELSE c

to_upper(c) == IF is_lower(c) THEN c - 32 ELSE c

(***************************************************************************)
(* aa20                                                                    *)
(***************************************************************************)

aa20_size == 20

aa20_letters == <<"A", "C", "D", "E", "F", "G", "H", "I", "K", "L",
                  "M", "N", "P", "Q", "R", "S", "T", "V", "W", "Y">>

\* aa20::rank_to_char
aa20_rank_to_char == [r \in 0 .. aa20_size - 1 |-> Ord[aa20_letters[r + 1]]]

\* A faulty aa20::char_to_rank: the table is filled with the char 'S' where the
\* code fills it with the rank of 'S'.
aa20_char_to_rank_filled_with_char ==
  [i \in Index |->
     IF \E r \in 0 .. aa20_size - 1 :
          i \in {index_t(aa20_rank_to_char[r]), index_t(to_lower(aa20_rank_to_char[r]))}
       THEN CHOOSE r \in 0 .. aa20_size - 1 :
          i \in {index_t(aa20_rank_to_char[r]), index_t(to_lower(aa20_rank_to_char[r]))}
       ELSE Ord["S"]]

\* A faulty aa20::char_to_rank: O and o (pyrrolysine) are converted to K (lysine)
\* where the code converts them to L.
aa20_char_to_rank_O_to_K ==
  LET unknown == [i \in Index |-> 15]
      canon == [i \in Index |->
                  IF \E r \in 0 .. aa20_size - 1 :
                       i \in {index_t(aa20_rank_to_char[r]), index_t(to_lower(aa20_rank_to_char[r]))}
                    THEN CHOOSE r \in 0 .. aa20_size - 1 :
                       i \in {index_t(aa20_rank_to_char[r]), index_t(to_lower(aa20_rank_to_char[r]))}
                    ELSE unknown[i]]
  IN  [canon EXCEPT ![Ord["B"]] = canon[Ord["D"]], ![Ord["b"]] = canon[Ord["D"]],
                    ![Ord["J"]] = canon[Ord["L"]], ![Ord["j"]] = canon[Ord["L"]],
                    ![Ord["O"]] = canon[Ord["K"]], ![Ord["o"]] = canon[Ord["K"]],
                    ![Ord["U"]] = canon[Ord["C"]], ![Ord["u"]] = canon[Ord["C"]],
                    ![Ord["X"]] = canon[Ord["S"]], ![Ord["x"]] = canon[Ord["S"]],
                    ![Ord["Z"]] = canon[Ord["E"]], ![Ord["z"]] = canon[Ord["E"]],
                    ![Ord["*"]] = canon[Ord["W"]]]

\* aa20::char_to_rank, built as the lambda builds it: fill with 15, then the
\* letters and their lower case, then the extended letters.
aa20_char_to_rank ==
  LET unknown == [i \in Index |-> 15]
      canon == [i \in Index |->
                  IF \E r \in 0 .. aa20_size - 1 :
                       i \in {index_t(aa20_rank_to_char[r]), index_t(to_lower(aa20_rank_to_char[r]))}
                    THEN CHOOSE r \in 0 .. aa20_size - 1 :
                       i \in {index_t(aa20_rank_to_char[r]), index_t(to_lower(aa20_rank_to_char[r]))}
                    ELSE unknown[i]]
      ret == [canon EXCEPT ![Ord["B"]] = canon[Ord["D"]], ![Ord["b"]] = canon[Ord["D"]],
                           ![Ord["J"]] = canon[Ord["L"]], ![Ord["j"]] = canon[Ord["L"]],
                           ![Ord["O"]] = canon[Ord["L"]], ![Ord["o"]] = canon[Ord["L"]],
                           ![Ord["U"]] = canon[Ord["C"]], ![Ord["u"]] = canon[Ord["C"]],
                           ![Ord["X"]] = canon[Ord["S"]], ![Ord["x"]] = canon[Ord["S"]],
                           ![Ord["Z"]] = canon[Ord["E"]], ![Ord["z"]] = canon[Ord["E"]],
                           ![Ord["*"]] = canon[Ord["W"]]]
  IN  ret

(***************************************************************************)
(* Nucleotide alphabets: dna4, rna4, rna5                                  *)
(***************************************************************************)

dna4_size == 4

rna4_size == 4

dna5_size == 5

rna5_size == 5

dna4_letters == <<"A", "C", "G", "T">>

rna4_letters == <<"A", "C", "G", "U">>

dna5_letters == <<"A", "C", "G", "T", "N">>

rna5_letters == <<"A", "C", "G", "U", "N">>

\* dna4::rank_to_char
dna4_rank_to_char == [r \in 0 .. dna4_size - 1 |-> Ord[dna4_letters[r + 1]]]

\* dna4::char_to_rank: everything unknown is 'A' (rank 0); the letters and their
\* lower case; U is T; the IUPAC codes go to one of the letters they stand for.
dna4_char_to_rank ==
  LET canon == [i \in Index |->
                  IF \E r \in 0 .. dna4_size - 1 :
                       i \in {dna4_rank_to_char[r], to_lower(dna4_rank_to_char[r])}
                    THEN CHOOSE r \in 0 .. dna4_size - 1 :
                       i \in {dna4_rank_to_char[r], to_lower(dna4_rank_to_char[r])}
                    ELSE 0]
  IN  [canon EXCEPT ![Ord["U"]] = canon[Ord["T"]], ![Ord["u"]] = canon[Ord["t"]],
                    ![Ord["Y"]] = canon[Ord["C"]], ![Ord["S"]] = canon[Ord["C"]],
                    ![Ord["K"]] = canon[Ord["G"]], ![Ord["B"]] = canon[Ord["C"]]]

\* rna4::rank_to_char
rna4_rank_to_char == [r \in 0 .. rna4_size - 1 |-> Ord[rna4_letters[r + 1]]]

\* A faulty rna4::char_to_rank: the dna4 table without its entry for 'U'.
rna4_char_to_rank_without_U == [dna4_char_to_rank EXCEPT ![Ord["U"]] = 0]

\* rna4::char_to_rank = dna4::char_to_rank
rna4_char_to_rank == dna4_char_to_rank

\* dna5::rank_to_char
dna5_rank_to_char == [r \in 0 .. dna5_size - 1 |-> Ord[dna5_letters[r + 1]]]

\* dna5::char_to_rank: everything unknown is 'N'; the letters and their lower
\* case; U is T.
dna5_char_to_rank ==
  LET canon == [i \in Index |->
                  IF \E r \in 0 .. dna5_size - 1 :
                       i \in {dna5_rank_to_char[r], to_lower(dna5_rank_to_char[r])}
                    THEN CHOOSE r \in 0 .. dna5_size - 1 :
                       i \in {dna5_rank_to_char[r], to_lower(dna5_rank_to_char[r])}
                    ELSE 4]
  IN  [canon EXCEPT ![Ord["U"]] = canon[Ord["T"]], ![Ord["u"]] = canon[Ord["t"]]]

\* rna5::rank_to_char
rna5_rank_to_char == [r \in 0 .. rna5_size - 1 |-> Ord[rna5_letters[r + 1]]]

\* rna5::char_to_rank: everything unknown is 'N'; the letters and their lower
\* case; T is U.
rna5_char_to_rank ==
  LET canon == [i \in Index |->
                  IF \E r \in 0 .. rna5_size - 1 :
                       i \in {rna5_rank_to_char[r], to_lower(rna5_rank_to_char[r])}
                    THEN CHOOSE r \in 0 .. rna5_size - 1 :
                       i \in {rna5_rank_to_char[r], to_lower(rna5_rank_to_char[r])}
                    ELSE 4]
  IN  [canon EXCEPT ![Ord["T"]] = canon[Ord["U"]], ![Ord["t"]] = canon[Ord["u"]]]

\* The validator of TEST(rna5, char_is_valid): what rna5::char_is_valid is to return.
validator(c) ==
  \/ c = Ord["A"] \/ c = Ord["C"] \/ c = Ord["G"] \/ c = Ord["T"] \/ c = Ord["U"]
  \/ c = Ord["a"] \/ c = Ord["c"] \/ c = Ord["g"] \/ c = Ord["t"] \/ c = Ord["u"]
  \/ c = Ord["N"] \/ c = Ord["n"]

(***************************************************************************)
(* Quality alphabets: phred68legacy, phred42                               *)
(***************************************************************************)

phred68legacy_size == 68

phred68legacy_offset_phred == -5

phred68legacy_offset_char == Ord[";"]

phred42_size == 42

phred42_offset_phred == 0

phred42_offset_char == Ord["!"]

\* quality_base::rank_to_char
quality_rank_to_char(size, offset_char) == [r \in 0 .. size - 1 |-> r + offset_char]

\* quality_base::char_to_rank: chars below the range are the lowest quality,
\* chars above it the highest.
quality_char_to_rank(size, offset_char) ==
  [i \in Index |->
     LET c == char_type(i)
     IN  IF c < offset_char THEN 0
         ELSE IF c >= offset_char + size THEN size - 1
         ELSE c - offset_char]

\* quality_base::rank_to_phred
quality_rank_to_phred(size, offset_phred) == [r \in 0 .. size - 1 |-> r + offset_phred]

\* quality_base::phred_to_rank, indexed by the phred value (int8_t), clamped.
quality_phred_to_rank(size, offset_phred) ==
  [p \in -128 .. 127 |->
     IF p < offset_phred THEN 0
     ELSE IF p >= offset_phred + size THEN size - 1
     ELSE p - offset_phred]

\* A faulty rank_to_char of phred68legacy: the chars start at '!' as phred42's do.
phred68legacy_rank_to_char_from_bang ==
  quality_rank_to_char(phred68legacy_size, phred42_offset_char)

phred68legacy_rank_to_char == quality_rank_to_char(phred68legacy_size, phred68legacy_offset_char)

phred68legacy_char_to_rank == quality_char_to_rank(phred68legacy_size, phred68legacy_offset_char)

phred42_rank_to_char == quality_rank_to_char(phred42_size, phred42_offset_char)

phred42_char_to_rank == quality_char_to_rank(phred42_size, phred42_offset_char)

(***************************************************************************)
(* gap, mask, dot_bracket3                                                 *)
(***************************************************************************)

gap_size == 1

\* gap::char_value
gap_char_value == Ord["-"]

mask_size == 2

dot_bracket3_size == 3

(***************************************************************************)
(* The alphabet types of the model                                         *)
(***************************************************************************)

\* Alphabets derived directly from base<derived, size, char>.
BaseTypes == {"aa20", "dna4", "rna4", "dna5", "rna5", "phred68legacy", "gap"}

\* qualified<sequence_alphabet_t, quality_alphabet_t>
QualifiedTypes == {"qualified_rna4_phred68legacy", "qualified_dna4_phred42"}

\* masked<sequence_alphabet_t>
MaskedTypes == {"masked_dna4", "masked_gap", "masked_phred68legacy"}

\* Alphabets derived from tuple_base<derived, components...>.
TupleTypes == QualifiedTypes \cup MaskedTypes \cup {"structured_rna_rna4_dot_bracket3"}

\* The alphabets whose assign_char / to_char are modelled.
CharTypes == BaseTypes \cup QualifiedTypes \cup MaskedTypes

Types == BaseTypes \cup TupleTypes

\* The component list of a tuple composite, first component first.
component_types(Ty) ==
  CASE Ty = "qualified_rna4_phred68legacy" -> <<"rna4", "phred68legacy">>
    [] Ty = "qualified_dna4_phred42" -> <<"dna4", "phred42">>
    [] Ty = "masked_dna4" -> <<"dna4", "mask">>
    [] Ty = "masked_gap" -> <<"gap", "mask">>
    [] Ty = "masked_phred68legacy" -> <<"phred68legacy", "mask">>
    [] Ty = "structured_rna_rna4_dot_bracket3" -> <<"rna4", "dot_bracket3">>

\* The number of components of a tuple composite.
component_count(Ty) == Len(component_types(Ty))

\* The size template argument of a primitive alphabet's base.
primitive_size(Ty) ==
  CASE Ty = "aa20" -> aa20_size
    [] Ty = "dna4" -> dna4_size
    [] Ty = "rna4" -> rna4_size
    [] Ty = "dna5" -> dna5_size
    [] Ty = "rna5" -> rna5_size
    [] Ty = "phred68legacy" -> phred68legacy_size
    [] Ty = "phred42" -> phred42_size
    [] Ty = "gap" -> gap_size
    [] Ty = "mask" -> mask_size
    [] Ty = "dot_bracket3" -> dot_bracket3_size

\* bio::alphabet::size of component i (0-based) of a tuple composite.
component_size(Ty, i) == primitive_size(component_types(Ty)[i + 1])

\* tuple_base::cummulative_alph_sizes: (1, s0, s0*s1, ...); entry k is the product
\* of all sizes.
cummulative_alph_sizes(Ty) ==
  LET cum[i \in 0 .. component_count(Ty)] ==
        IF i = 0 THEN 1 ELSE cum[i - 1] * component_size(Ty, i - 1)
  IN  cum

\* alphabet_size: the size argument of base, for a tuple the product of the
\* component sizes.
alphabet_size(Ty) ==
  IF Ty \in TupleTypes THEN cummulative_alph_sizes(Ty)[component_count(Ty)]
  ELSE primitive_size(Ty)

\* The width in bits of rank_type = min_viable_uint_t<size - 1>.
rank_bits(Ty) ==
  IF alphabet_size(Ty) - 1 < 256 THEN 8
  ELSE IF alphabet_size(Ty) - 1 < 65536 THEN 16
  ELSE 32

\* Conversion of an integer to rank_type.
rank_type(Ty, v) == v % (2 ^ rank_bits(Ty))

\* The rank of a value-initialised letter, T{}.
value_initialised(Ty) == 0

(***************************************************************************)
(* base<derived, size, char>: the generic implementation over two tables   *)
(***************************************************************************)

\* derived_type::rank_to_char
rank_to_char(Ty) ==
  CASE Ty = "aa20" -> aa20_rank_to_char
    [] Ty = "dna4" -> dna4_rank_to_char
    [] Ty = "rna4" -> rna4_rank_to_char
    [] Ty = "dna5" -> dna5_rank_to_char
    [] Ty = "rna5" -> rna5_rank_to_char
    [] Ty = "phred68legacy" -> phred68legacy_rank_to_char
    [] Ty = "phred42" -> phred42_rank_to_char

\* derived_type::char_to_rank
char_to_rank(Ty) ==
  CASE Ty = "aa20" -> aa20_char_to_rank
    [] Ty = "dna4" -> dna4_char_to_rank
    [] Ty = "rna4" -> rna4_char_to_rank
    [] Ty = "dna5" -> dna5_char_to_rank
    [] Ty = "rna5" -> rna5_char_to_rank
    [] Ty = "phred68legacy" -> phred68legacy_char_to_rank
    [] Ty = "phred42" -> phred42_char_to_rank

\* base::to_char(): rank_to_char[rank]; the size 1 specialisation returns char_value.
base_to_char(Ty, r) ==
  IF alphabet_size(Ty) = 1 THEN gap_char_value ELSE rank_to_char(Ty)[r]

\* base::to_rank(): the stored rank; the size 1 specialisation returns 0.
base_to_rank(Ty, r) ==
  IF alphabet_size(Ty) = 1 THEN 0 ELSE r

\* A faulty base::assign_char: the index is the char's low seven bits.
base_assign_char_seven_bit(Ty, r, c) ==
  IF alphabet_size(Ty) = 1 THEN r ELSE char_to_rank(Ty)[c % 128]

\* base::assign_char(c): rank = char_to_rank[static_cast<index_t>(c)]; a no-op in
\* the size 1 specialisation.
base_assign_char(Ty, r, c) ==
  IF alphabet_size(Ty) = 1 THEN r ELSE char_to_rank(Ty)[index_t(c)]

\* A faulty base::assign_rank: the size 1 specialisation stores its argument too.
base_assign_rank_always_stores(Ty, r, c) == rank_type(Ty, c)

\* base::assign_rank(c): rank = c (c < alphabet_size is asserted); a no-op in the
\* size 1 specialisation.
base_assign_rank(Ty, r, c) ==
  IF alphabet_size(Ty) = 1 THEN r ELSE rank_type(Ty, c)

\* operator==(lhs, rhs): lhs.to_rank() == rhs.to_rank(); always true for size 1.
base_eq(Ty, lhs, rhs) ==
  IF alphabet_size(Ty) = 1 THEN TRUE ELSE base_to_rank(Ty, lhs) = base_to_rank(Ty, rhs)

\* A faulty operator<: the letters are compared by their printed chars.
base_less_by_char(Ty, lhs, rhs) ==
  IF alphabet_size(Ty) = 1 THEN FALSE ELSE rank_to_char(Ty)[lhs] < rank_to_char(Ty)[rhs]

\* operator<=>(lhs, rhs) < 0: lhs.to_rank() < rhs.to_rank(); always false for size 1.
base_less(Ty, lhs, rhs) ==
  IF alphabet_size(Ty) = 1 THEN FALSE ELSE base_to_rank(Ty, lhs) < base_to_rank(Ty, rhs)

\* lhs > rhs: (lhs <=> rhs) > 0; always false for size 1.
base_greater(Ty, lhs, rhs) ==
  IF alphabet_size(Ty) = 1 THEN FALSE ELSE base_to_rank(Ty, lhs) > base_to_rank(Ty, rhs)

\* lhs <= rhs: (lhs <=> rhs) <= 0; always true for size 1.
base_less_eq(Ty, lhs, rhs) ==
  IF alphabet_size(Ty) = 1 THEN TRUE ELSE base_to_rank(Ty, lhs) <= base_to_rank(Ty, rhs)

\* lhs >= rhs: (lhs <=> rhs) >= 0; always true for size 1.
base_greater_eq(Ty, lhs, rhs) ==
  IF alphabet_size(Ty) = 1 THEN TRUE ELSE base_to_rank(Ty, lhs) >= base_to_rank(Ty, rhs)

\* The assertion of base::assign_rank, on the argument as the parameter of type
\* rank_type receives it; the size 1 specialisation asserts nothing.
assign_rank_assertion(Ty, c) ==
  alphabet_size(Ty) = 1 \/ rank_type(Ty, c) < alphabet_size(Ty)

\* The dna/rna alphabet of the same size that a nucleotide alphabet is implicitly
\* constructed from.
same_size_partner(Ty) ==
  CASE Ty = "rna4" -> "dna4"
    [] Ty = "dna4" -> "rna4"
    [] Ty = "rna5" -> "dna5"
    [] Ty = "dna5" -> "rna5"

\* The alphabets with such a constructor.
ConvertibleTypes == {"dna4", "rna4", "dna5", "rna5"}

\* A faulty converting constructor: the rank is taken over as complement() takes
\* it, from the other end of the alphabet.
convert_same_size_reversed(Ty, r, from) ==
  base_assign_rank(Ty, r, alphabet_size(Ty) - 1 - base_to_rank(same_size_partner(Ty), from))

\* rna4::rna4(dna4 const & r): assign_rank(r.to_rank()); the constructors of the
\* other alphabets from their partner likewise.
convert_same_size(Ty, r, from) ==
  base_assign_rank(Ty, r, base_to_rank(same_size_partner(Ty), from))

(***************************************************************************)
(* tuple_base<derived, components...>: the mixed-radix rank                *)
(***************************************************************************)

\* tuple_base::to_component_rank<i>(): (rank / cum[i]) % size_i
to_component_rank(Ty, r, i) ==
  (r \div cummulative_alph_sizes(Ty)[i]) % component_size(Ty, i)

\* tuple_base::rank_sum: the rank of the tuple built from the component ranks rs.
rank_sum(Ty, rs) ==
  LET sum[i \in 0 .. component_count(Ty)] ==
        IF i = 0 THEN 0 ELSE sum[i - 1] + rs[i] * cummulative_alph_sizes(Ty)[i - 1]
  IN  sum[component_count(Ty)]

\* tuple_base::assign_component_rank<i>(v): take the old contribution of component
\* i out of the rank and put the new one in.
assign_component_rank(Ty, r, i, v) ==
  base_assign_rank(Ty, r,
    r - to_component_rank(Ty, r, i) * cummulative_alph_sizes(Ty)[i]
      + v * cummulative_alph_sizes(Ty)[i])

(***************************************************************************)
(* qualified<sequence_alphabet_t, quality_alphabet_t>                      *)
(***************************************************************************)

sequence_alphabet_type(Ty) == component_types(Ty)[1]

quality_alphabet_type(Ty) == component_types(Ty)[2]

\* offset_phred of a quality alphabet.
offset_phred(Q) ==
  CASE Q = "phred68legacy" -> phred68legacy_offset_phred
    [] Q = "phred42" -> phred42_offset_phred

\* A faulty qualified::assign_char: the two cumulative sizes are exchanged, so the
\* sequence letter is written as the most significant digit.
qualified_assign_char_weights_exchanged(Ty, r, c) ==
  base_assign_rank(Ty, r,
    base_to_rank(sequence_alphabet_type(Ty),
                 base_assign_char(sequence_alphabet_type(Ty),
                                  value_initialised(sequence_alphabet_type(Ty)), c))
        * cummulative_alph_sizes(Ty)[1]
      + to_component_rank(Ty, r, 1) * cummulative_alph_sizes(Ty)[0])

\* r ^ 0b10: only the second bit flipped.
xor_0b10(r) == (r - (r % 4)) + 2 * (1 - ((r \div 2) % 2)) + (r % 2)

\* r ^ 0b11 on an unsigned rank: the two low bits flipped, the others kept.
xor_0b11(r) ==
  (r - (r % 4)) + 2 * (1 - ((r \div 2) % 2)) + (1 - (r % 2))

\* rna4::complement(): rna4{}.assign_rank(to_rank() ^ 0b11)
rna4_complement(r) ==
  base_assign_rank("rna4", value_initialised("rna4"), xor_0b11(base_to_rank("rna4", r)))

\* dna4::complement(), as rna4's.
dna4_complement(r) ==
  base_assign_rank("dna4", value_initialised("dna4"), xor_0b11(base_to_rank("dna4", r)))

\* The char of the complementary base: A and T (U) pair, C and G pair, N is
\* its own complement.
complement_char(c) ==
  CASE c = Ord["A"] -> Ord["T"]
    [] c = Ord["C"] -> Ord["G"]
    [] c = Ord["G"] -> Ord["C"]
    [] c \in {Ord["T"], Ord["U"]} -> Ord["A"]
    [] c = Ord["N"] -> Ord["N"]

\* derived_type::complement_table of a nucleotide alphabet: for each rank the
\* letter of the complementary base.
complement_table(S) ==
  [r \in 0 .. primitive_size(S) - 1 |->
     base_assign_char(S, value_initialised(S), complement_char(rank_to_char(S)[r]))]

\* nucleotide_base::complement(): derived_type::complement_table[to_rank()]
nucleotide_base_complement(S, r) == complement_table(S)[base_to_rank(S, r)]

\* bio::alphabet::complement(a) of a nucleotide letter
complement(S, r) ==
  CASE S = "rna4" -> rna4_complement(r)
    [] S = "dna4" -> dna4_complement(r)
    [] S = "dna5" -> nucleotide_base_complement(S, r)

\* views::complement over a vector of letters: every letter complemented.
views_complement(S, urange) == [i \in 1 .. Len(urange) |-> complement(S, urange[i])]

\* A faulty qualified::complement: the result is built from the complemented
\* sequence letter alone, so its quality is that of a value-initialised letter.
qualified_complement_without_quality(Ty, r) ==
  base_assign_rank(Ty, value_initialised(Ty),
    rank_sum(Ty, <<complement(sequence_alphabet_type(Ty), to_component_rank(Ty, r, 0)),
                   value_initialised(quality_alphabet_type(Ty))>>))

\* qualified::complement(): qualified{complement(get<0>(*this)), get<1>(*this)}
qualified_complement(Ty, r) ==
  base_assign_rank(Ty, value_initialised(Ty),
    rank_sum(Ty, <<complement(sequence_alphabet_type(Ty), to_component_rank(Ty, r, 0)),
                   to_component_rank(Ty, r, 1)>>))

\* quality_base::to_phred() of a quality alphabet: rank_to_phred[to_rank()]
quality_to_phred(Q, r) ==
  quality_rank_to_phred(primitive_size(Q), offset_phred(Q))[base_to_rank(Q, r)]

\* qualified::assign_char(c): the rank of S{}.assign_char(c) times cum[0] plus the
\* present rank of component 1 times cum[1], handed to assign_rank.
qualified_assign_char(Ty, r, c) ==
  base_assign_rank(Ty, r,
    base_to_rank(sequence_alphabet_type(Ty),
                 base_assign_char(sequence_alphabet_type(Ty),
                                  value_initialised(sequence_alphabet_type(Ty)), c))
        * cummulative_alph_sizes(Ty)[0]
      + to_component_rank(Ty, r, 1) * cummulative_alph_sizes(Ty)[1])

\* A faulty qualified::assign_phred: the quality is written to get<0>.
qualified_assign_phred_to_component_0(Ty, r, p) ==
  assign_component_rank(Ty, r, 0,
    quality_phred_to_rank(primitive_size(quality_alphabet_type(Ty)),
                          offset_phred(quality_alphabet_type(Ty)))[p])

\* qualified::assign_phred(p): assign_phred_to(p, get<1>(*this)); the component
\* proxy writes the new quality back with assign_component_rank<1>.
qualified_assign_phred(Ty, r, p) ==
  assign_component_rank(Ty, r, 1,
    quality_phred_to_rank(primitive_size(quality_alphabet_type(Ty)),
                          offset_phred(quality_alphabet_type(Ty)))[p])

\* A faulty qualified::rank_to_char: the rank is divided by cum[1] where the code
\* divides by cum[0].
qualified_rank_to_char_divided_by_cum_1(Ty, i) ==
  LET seq_rank == (i \div cummulative_alph_sizes(Ty)[1])
                    % primitive_size(quality_alphabet_type(Ty))
  IN  IF seq_rank < primitive_size(sequence_alphabet_type(Ty))
        THEN {base_to_char(sequence_alphabet_type(Ty),
                           base_assign_rank(sequence_alphabet_type(Ty),
                                            value_initialised(sequence_alphabet_type(Ty)),
                                            seq_rank))}
        ELSE Char

\* qualified::rank_to_char[i], as the lambda fills it:
\*   seq_rank = (i / cum[0]) % size<quality_alphabet_type>
\*   ret[i]   = to_char(assign_rank_to(seq_rank, sequence_alphabet_type{}))
\* A seq_rank that is no rank of the sequence alphabet breaks assign_rank's
\* precondition and reads past the end of its rank_to_char: any char may result.
\* The value is the set of the chars the entry may hold.
qualified_rank_to_char(Ty, i) ==
  LET seq_rank == (i \div cummulative_alph_sizes(Ty)[0])
                    % primitive_size(quality_alphabet_type(Ty))
  IN  IF seq_rank < primitive_size(sequence_alphabet_type(Ty))
        THEN {base_to_char(sequence_alphabet_type(Ty),
                           base_assign_rank(sequence_alphabet_type(Ty),
                                            value_initialised(sequence_alphabet_type(Ty)),
                                            seq_rank))}
        ELSE Char

\* qualified::rank_to_phred[i], as the lambda fills it:
\*   qual_rank = (i / cum[1]) % size<quality_alphabet_type>
\*   ret[i]    = to_phred(assign_rank_to(qual_rank, quality_alphabet_type{}))
\* The array's element type is char_type.
qualified_rank_to_phred(Ty, i) ==
  LET qual_rank == (i \div cummulative_alph_sizes(Ty)[1])
                     % primitive_size(quality_alphabet_type(Ty))
  IN  char_type(quality_rank_to_phred(primitive_size(quality_alphabet_type(Ty)),
                                      offset_phred(quality_alphabet_type(Ty)))[qual_rank])

\* qualified::to_phred(): rank_to_phred[to_rank()]
qualified_to_phred(Ty, r) == qualified_rank_to_phred(Ty, base_to_rank(Ty, r))

\* qualified::to_char(): rank_to_char[to_rank()]; the set of the possible results.
qualified_to_char(Ty, r) == qualified_rank_to_char(Ty, base_to_rank(Ty, r))

(***************************************************************************)
(* masked<sequence_alphabet_t>                                             *)
(***************************************************************************)

\* A faulty masked::rank_to_char: the upper half repeats the lower half as it is.
masked_rank_to_char_without_lower(Ty, i) ==
  LET half == alphabet_size(Ty) \div 2
      unmasked(j) == base_to_char(sequence_alphabet_type(Ty),
                                  base_assign_rank(sequence_alphabet_type(Ty),
                                                   value_initialised(sequence_alphabet_type(Ty)), j))
  IN  IF i < half THEN unmasked(i) ELSE unmasked(i - half)

\* masked::rank_to_char[i]: the sequence letter's char in the lower half of the
\* ranks, its lower case in the upper half.
masked_rank_to_char(Ty, i) ==
  LET half == alphabet_size(Ty) \div 2
      unmasked(j) == base_to_char(sequence_alphabet_type(Ty),
                                  base_assign_rank(sequence_alphabet_type(Ty),
                                                   value_initialised(sequence_alphabet_type(Ty)), j))
  IN  IF i < half THEN unmasked(i) ELSE to_lower(unmasked(i - half))

\* A faulty masked::char_to_rank: the masked half is taken to start at the size
\* of the masked alphabet, not at the size of the sequence alphabet.
masked_char_to_rank_offset_by_size(Ty, i) ==
  LET c == char_type(i)
      S == sequence_alphabet_type(Ty)
  IN  IF is_lower(c)
        THEN base_to_rank(S, base_assign_char(S, value_initialised(S), to_upper(c)))
               + alphabet_size(Ty)
        ELSE base_to_rank(S, base_assign_char(S, value_initialised(S), c))

\* masked::char_to_rank[i]: a lower case char is the masked letter of its upper
\* case, every other char the unmasked letter.
masked_char_to_rank(Ty, i) ==
  LET c == char_type(i)
      S == sequence_alphabet_type(Ty)
  IN  IF is_lower(c)
        THEN base_to_rank(S, base_assign_char(S, value_initialised(S), to_upper(c)))
               + alphabet_size(Ty) \div 2
        ELSE base_to_rank(S, base_assign_char(S, value_initialised(S), c))

\* A faulty masked::assign_char: only the sequence component is written, the
\* mask stays what it was.
masked_assign_char_keeps_mask(Ty, r, c) ==
  assign_component_rank(Ty, r, 0,
    masked_char_to_rank(Ty, index_t(c)) % primitive_size(sequence_alphabet_type(Ty)))

\* masked::assign_char(c): assign_rank(char_to_rank[static_cast<index_t>(c)])
masked_assign_char(Ty, r, c) == base_assign_rank(Ty, r, masked_char_to_rank(Ty, index_t(c)))

\* masked::to_char(): rank_to_char[to_rank()]
masked_to_char(Ty, r) == masked_rank_to_char(Ty, base_to_rank(Ty, r))

(***************************************************************************)
(* The customisation points, resolved per type                             *)
(***************************************************************************)

\* assign_char_to(c, a): the rank of a afterwards.
assign_char_to(Ty, r, c) ==
  IF Ty \in QualifiedTypes THEN qualified_assign_char(Ty, r, c)
  ELSE IF Ty \in MaskedTypes THEN masked_assign_char(Ty, r, c)
  ELSE base_assign_char(Ty, r, c)

\* to_char(a): the set of the chars the call may return (one char, unless the
\* table entry read is undefined).
to_char(Ty, r) ==
  IF Ty \in QualifiedTypes THEN qualified_to_char(Ty, r)
  ELSE IF Ty \in MaskedTypes THEN {masked_to_char(Ty, r)}
  ELSE {base_to_char(Ty, r)}

\* nucleotide_base::char_is_valid for dna4, rna4 and dna5: the letters, their lower
\* case, and T and U in both cases.
nucleotide_char_is_valid(Ty, c) ==
  \/ \E r \in 0 .. primitive_size(Ty) - 1 : to_upper(c) = rank_to_char(Ty)[r]
  \/ c \in {Ord["T"], Ord["U"], Ord["t"], Ord["u"]}

\* char_is_valid_for<T>(c) of a primitive alphabet: the type's char_is_valid
\* where it has one, else to_char(assign_char_to(c, T{})) == c.
primitive_char_is_valid(Ty, c) ==
  IF Ty = "rna5" THEN validator(c)
  ELSE IF Ty \in {"dna4", "rna4", "dna5"} THEN nucleotide_char_is_valid(Ty, c)
  ELSE base_to_char(Ty, base_assign_char(Ty, value_initialised(Ty), c)) = c

\* A faulty qualified::char_is_valid: it asks the quality alphabet.
qualified_char_is_valid_asks_quality(Ty, c) ==
  primitive_char_is_valid(quality_alphabet_type(Ty), c)

\* qualified::char_is_valid(c): char_is_valid_for<sequence_alphabet_type>(c)
qualified_char_is_valid(Ty, c) == primitive_char_is_valid(sequence_alphabet_type(Ty), c)

\* char_is_valid_for<T>(c)
char_is_valid_for(Ty, c) ==
  IF Ty \in QualifiedTypes THEN qualified_char_is_valid(Ty, c)
  ELSE IF Ty \in MaskedTypes
    THEN masked_to_char(Ty, masked_assign_char(Ty, value_initialised(Ty), c)) = c
  ELSE primitive_char_is_valid(Ty, c)

(***************************************************************************)
(* small_string<capacity_>: a small_vector<char, capacity_ + 1> whose      *)
(* storage data_ has capacity_ + 1 chars and whose size sz counts the      *)
(* chars before the terminator.  data_[i] of the code is data_[i + 1]      *)
(* here.                                                                   *)
(***************************************************************************)

\* The capacity of the string of the model.
capacity_ == 3

\* The chars the string is filled with: '\0', 'a' and 'b'.
StringChars == {0, Ord["a"], Ord["b"]}

\* The contents a string is assigned from or extended by: the chars of a
\* literal without its terminator, or an iterator range.
Contents == UNION {[1 .. n -> StringChars \ {0}] : n \in 0 .. capacity_}

\* std::array<char, n>{}: value-initialised storage.
value_initialised_storage(n) == [i \in 1 .. n |-> 0]

\* data_[i] = v
store(d, i, v) == [d EXCEPT ![i + 1] = v]

\* small_vector::assign(begin_it, end_it): the range becomes the elements.
small_vector_assign(d, s, range) ==
  [data_ |-> [i \in 1 .. Len(d) |-> IF i <= Len(range) THEN range[i] ELSE d[i]],
   sz |-> Len(range)]

\* small_vector::erase(begin_it, end_it): the elements behind the erased ones
\* move down, the size shrinks.
small_vector_erase(d, s, first, last) ==
  [data_ |-> [i \in 1 .. Len(d) |->
                IF first < i /\ i <= s - (last - first) THEN d[i + (last - first)] ELSE d[i]],
   sz |-> s - (last - first)]

\* small_vector::insert(pos, begin_it, end_it): the elements from pos on move
\* up, the range is copied into the gap, the size grows.
small_vector_insert(d, s, pos, range) ==
  [data_ |-> [i \in 1 .. Len(d) |->
                IF pos < i /\ i <= pos + Len(range) THEN range[i - pos]
                ELSE IF pos + Len(range) < i /\ i <= s + Len(range) THEN d[i - Len(range)]
                ELSE d[i]],
   sz |-> s + Len(range)]

\* small_string::assign(begin_it, end_it)
small_string_assign(d, s, range) ==
  LET v == small_vector_assign(d, s, range)
  IN  [data_ |-> store(v.data_, v.sz, 0), sz |-> v.sz]

\* small_string::clear
small_string_clear(d, s) == [data_ |-> store(d, 0, 0), sz |-> 0]

\* small_string::push_back
small_string_push_back(d, s, value) ==
  [data_ |-> store(store(d, s, value), s + 1, 0), sz |-> s + 1]

\* small_string::pop_back
small_string_pop_back(d, s) == [data_ |-> store(d, s - 1, 0), sz |-> s - 1]

\* A resize that fills the whole string with value.
small_string_resize_fills_all(d, s, count, value) ==
  [data_ |-> store([i \in 1 .. Len(d) |-> IF i <= count THEN value ELSE d[i]], count, 0),
   sz |-> count]

\* small_string::resize(count, value)
small_string_resize(d, s, count, value) ==
  [data_ |-> store([i \in 1 .. Len(d) |-> IF s < i /\ i <= count THEN value ELSE d[i]], count, 0),
   sz |-> count]

\* std::min<size_type>
min(a, b) == IF a < b THEN a ELSE b

\* small_string::erase(index, count)
small_string_erase(d, s, index, count) ==
  small_vector_erase(d, s, index, index + min(count, s - index))

\* operator+(lhs, rhs): a string of the summed capacity built from lhs, with
\* the chars of rhs inserted at its end.
small_string_plus(d, s, rhs) ==
  LET tmp == small_vector_assign(value_initialised_storage(Len(d) + capacity_), 0, SubSeq(d, 1, s))
  IN  small_vector_insert(tmp.data_, tmp.sz, tmp.sz, rhs)

\* str(): std::string{cbegin(), cend()}
str(d, s) == SubSeq(d, 1, s)

\* The chars a reader of the null-terminated array c_str() gets: those
\* before the first '\0' of the storage; a reader that finds none runs past
\* the end of the array, and the whole storage is what it got from it.
c_str(d) ==
  IF \E i \in 1 .. Len(d) : d[i] = 0
  THEN SubSeq(d, 1, (CHOOSE i \in 1 .. Len(d) : d[i] = 0 /\ \A j \in 1 .. i - 1 : d[j] # 0) - 1)
  ELSE d

(***************************************************************************)
(* single_pass_input_view<urng_t>: the view holds a shared pointer to its  *)
(* state, the underlying range and one cached iterator into it; every      *)
(* iterator of the view holds a pointer to the view and nothing else.  A   *)
(* position in the underlying range is the number of elements before it.   *)
(* state_ptr holds the state objects allocated so far (none before a view  *)
(* is constructed from a range); a copy of a view points to the state      *)
(* object of the view it was copied from.                                  *)
(***************************************************************************)

\* The longest underlying range of the model.
MaxRangeLen == 3

\* The most iterators of the view alive at one time.
MaxIterators == 2

\* The most views on one underlying range: the view and its copies.
MaxViews == 2

\* The underlying ranges: the vectors of ints of at most MaxRangeLen elements.
Ranges == UNION {[1 .. n -> 1 .. 3] : n \in 0 .. MaxRangeLen}

\* new state{std::move(_urng)}: cached_urng_iter = std::ranges::begin(urng)
state(_urng) == [urng |-> _urng, cached_urng_iter |-> 0]

\* A copy of a view with a state object of its own: the state is copied, not
\* the pointer to it.
copy_with_own_state(heap, ptr) ==
  [state_ptr |-> Append(heap, heap[ptr]), view |-> Len(heap) + 1]

\* single_pass_input_view(single_pass_input_view const &) = default: the
\* shared_ptr is copied, the copy points to the same state object.
copy_constructed(heap, ptr) == [state_ptr |-> heap, view |-> ptr]

\* view.end(): std::ranges::end(state_ptr->urng)
end(view) == Len(state_ptr[views[view]].urng)

\* An iterator that stays at std::ranges::begin(urng).
cached_begin_of_urng(it) == 0

\* it.cached(): view_ptr->state_ptr->cached_urng_iter
cached(it) == state_ptr[views[iterators[it]]].cached_urng_iter

\* An iterator that reads the first element wherever it is.
deref_first(it) == state_ptr[views[iterators[it]]].urng[1]

\* *it
deref(it) == state_ptr[views[iterators[it]]].urng[cached(it) + 1]

\* ++it.cached()
pre_increment(it) ==
  [state_ptr EXCEPT ![views[iterators[it]]].cached_urng_iter = cached(it) + 1]

\* it == s
iterator_eq_sentinel(it, s) == cached(it) = s

\* s == it
sentinel_eq_iterator(s, it) == iterator_eq_sentinel(it, s)

(***************************************************************************)
(* The state: a letter a (rank) and a second letter b (other) of the       *)
(* alphabet type T, and the record of the call in progress: the operation  *)
(* (op), its argument (arg) and its result (res).  An operation is called  *)
(* when no call is on record; Return drops the record.                     *)
(***************************************************************************)

Init ==
  /\ T \in Types
  /\ rank = value_initialised(T)
  /\ other = value_initialised(T)
  /\ op = "idle"
  /\ arg = <<>>
  /\ res = <<>>
  /\ data_ = value_initialised_storage(capacity_ + 1)
  /\ sz = 0
  /\ state_ptr = <<>>
  /\ views = <<>>
  /\ iterators = <<>>
  /\ yielded = <<>>

\* a.assign_char(c) / assign_char_to(c, a)
AssignChar(c) ==
  /\ op = "idle"
  /\ T \in CharTypes
  /\ rank' = assign_char_to(T, rank, c)
  /\ op' = "assign_char"
  /\ arg' = <<c>>
  /\ res' = <<>>
  /\ UNCHANGED <<string_vars, view_vars, T, other>>

\* a.assign_rank(r) / assign_rank_to(r, a), within the precondition r < alphabet_size
AssignRank(r) ==
  /\ op = "idle"
  /\ r < alphabet_size(T)
  /\ rank' = base_assign_rank(T, rank, r)
  /\ op' = "assign_rank"
  /\ arg' = <<r>>
  /\ res' = <<>>
  /\ UNCHANGED <<string_vars, view_vars, T, other>>

\* a = b (copy assignment)
CopyAssign ==
  /\ op = "idle"
  /\ rank' = other
  /\ op' = "copy_assign"
  /\ arg' = <<>>
  /\ res' = <<>>
  /\ UNCHANGED <<string_vars, view_vars, T, other>>

\* b constructed or assigned as a copy of a
CopyConstruct ==
  /\ op = "idle"
  /\ other' = rank
  /\ op' = "copy_construct"
  /\ arg' = <<>>
  /\ res' = <<>>
  /\ UNCHANGED <<string_vars, view_vars, T, rank>>

\* a == b and a < b
Compare ==
  /\ op = "idle"
  /\ op' = "compare"
  /\ arg' = <<>>
  /\ res' = <<base_eq(T, rank, other), base_less(T, rank, other)>>
  /\ UNCHANGED <<string_vars, view_vars, T, rank, other>>

\* a > b, a <= b and a >= b
CompareOrder ==
  /\ op = "idle"
  /\ op' = "compare_order"
  /\ arg' = <<>>
  /\ res' = <<base_greater(T, rank, other), base_less_eq(T, rank, other),
              base_greater_eq(T, rank, other)>>
  /\ UNCHANGED <<string_vars, view_vars, T, rank, other>>

\* a.assign_rank(r) / assign_rank_to(r, a) with an integer r that is no rank of the
\* alphabet, in a build with assertions: the argument is converted to rank_type,
\* then the assertion is evaluated; where it fails the program is aborted, where
\* it passes the converted value is stored.
AssignRankOutOfRange(r) ==
  /\ op = "idle"
  /\ r >= alphabet_size(T)
  /\ IF assign_rank_assertion(T, r)
       THEN /\ rank' = base_assign_rank(T, rank, r)
            /\ op' = "assign_rank_out_of_range"
       ELSE /\ rank' = rank
            /\ op' = "abort"
  /\ arg' = <<r>>
  /\ res' = <<>>
  /\ UNCHANGED <<string_vars, view_vars, T, other>>

\* a = other_type{}.assign_char(c): a is constructed or assigned from the letter
\* that the same-size partner alphabet makes of the char c; res is that letter's rank.
Convert(c) ==
  /\ op = "idle"
  /\ T \in ConvertibleTypes
  /\ LET from == base_assign_char(same_size_partner(T),
                                  value_initialised(same_size_partner(T)), c)
     IN  /\ rank' = convert_same_size(T, rank, from)
         /\ res' = <<from>>
  /\ op' = "convert"
  /\ arg' = <<c>>
  /\ UNCHANGED <<string_vars, view_vars, T, other>>

\* a = a.complement(); the letter complemented is kept as arg.
Complement ==
  /\ op = "idle"
  /\ T \in QualifiedTypes
  /\ rank' = qualified_complement(T, rank)
  /\ op' = "complement"
  /\ arg' = <<rank>>
  /\ res' = <<>>
  /\ UNCHANGED <<string_vars, view_vars, T, other>>

\* a = derived_type{components...}: construction from the component letters
Construct(rs) ==
  /\ op = "idle"
  /\ T \in TupleTypes
  /\ \A i \in 1 .. component_count(T) : rs[i] < component_size(T, i - 1)
  /\ rank' = base_assign_rank(T, rank, rank_sum(T, rs))
  /\ op' = "construct"
  /\ arg' = rs
  /\ res' = <<>>
  /\ UNCHANGED <<string_vars, view_vars, T, other>>

\* a.assign_component_rank<i>(r): assignment to get<i>(a)
AssignComponentRank(i, r) ==
  /\ op = "idle"
  /\ T \in TupleTypes
  /\ i < component_count(T)
  /\ r < component_size(T, i)
  /\ rank' = assign_component_rank(T, rank, i, r)
  /\ op' = "assign_component_rank"
  /\ arg' = <<i, r>>
  /\ res' = <<>>
  /\ UNCHANGED <<string_vars, view_vars, T, other>>

\* a.assign_phred(p)
AssignPhred(p) ==
  /\ op = "idle"
  /\ T \in QualifiedTypes
  /\ rank' = qualified_assign_phred(T, rank, p)
  /\ op' = "assign_phred"
  /\ arg' = <<p>>
  /\ res' = <<>>
  /\ UNCHANGED <<string_vars, view_vars, T, other>>

\* a.to_char() / to_char(a)
ToChar ==
  /\ op = "idle"
  /\ T \in CharTypes
  /\ op' = "to_char"
  /\ arg' = <<>>
  /\ \E ch \in to_char(T, rank) : res' = <<ch>>
  /\ UNCHANGED <<string_vars, view_vars, T, rank, other>>

\* a.to_phred()
ToPhred ==
  /\ op = "idle"
  /\ T \in QualifiedTypes
  /\ op' = "to_phred"
  /\ arg' = <<>>
  /\ res' = <<qualified_to_phred(T, rank)>>
  /\ UNCHANGED <<string_vars, view_vars, T, rank, other>>

\* char_is_valid_for<T>(c)
CharIsValid(c) ==
  /\ op = "idle"
  /\ T \in CharTypes
  /\ op' = "char_is_valid"
  /\ arg' = <<c>>
  /\ res' = <<char_is_valid_for(T, c)>>
  /\ UNCHANGED <<string_vars, view_vars, T, rank, other>>

\* The call on record returns; an aborted program does nothing more.
Return ==
  /\ op \notin {"idle", "abort"}
  /\ op' = "idle"
  /\ arg' = <<>>
  /\ res' = <<>>
  /\ UNCHANGED <<string_vars, view_vars, T, rank, other>>

\* The ranks that occur in any alphabet of the model.
Ranks == 0 .. 271

\* The component ranks a two-component composite is constructed from.
ComponentRanks == (0 .. 3) \X (0 .. 67)

\* The values of phred_type (int8_t).
Phreds == -128 .. 127

\* The integers outside the ranks of an alphabet that assign_rank is called with:
\* around the alphabet sizes, around 2^8 and around 2^16.
OutOfRangeRanks == {1, 4, 5, 6, 20, 21, 68, 69, 255, 256, 257, 260, 276, 324, 65535, 65536}

\* One letter of any alphabet type.
Next ==
  \/ \E c \in Char : AssignChar(c)
  \/ \E r \in Ranks : AssignRank(r)
  \/ \E rs \in ComponentRanks : Construct(rs)
  \/ \E i \in 0 .. 1, r \in 0 .. 67 : AssignComponentRank(i, r)
  \/ \E p \in Phreds : AssignPhred(p)
  \/ Complement
  \/ \E c \in Char : Convert(c)
  \/ \E c \in Char : CharIsValid(c)
  \/ ToChar
  \/ ToPhred
  \/ Return

Spec == Init /\ [][Next]_vars

\* Two letters of one base-derived alphabet type.
InitPair == Init /\ T \in BaseTypes

NextPair ==
  \/ \E c \in Char : AssignChar(c)
  \/ \E r \in Ranks : AssignRank(r)
  \/ \E r \in OutOfRangeRanks : AssignRankOutOfRange(r)
  \/ CopyAssign
  \/ CopyConstruct
  \/ Compare
  \/ CompareOrder
  \/ Return

SpecPair == InitPair /\ [][NextPair]_vars

(***************************************************************************)
(* The operations on a small_string.  The letter is left alone.            *)
(***************************************************************************)

letter_vars == <<T, rank, other>>

\* s.assign("..."), s = "...", small_string{"..."} and s.assign(begin_it, end_it)
Assign(range) ==
  /\ op = "idle"
  /\ LET s == small_string_assign(data_, sz, range)
     IN  data_' = s.data_ /\ sz' = s.sz
  /\ op' = "assign"
  /\ arg' = <<range>>
  /\ res' = <<>>
  /\ UNCHANGED <<letter_vars, view_vars>>

\* s.clear()
Clear ==
  /\ op = "idle"
  /\ LET s == small_string_clear(data_, sz)
     IN  data_' = s.data_ /\ sz' = s.sz
  /\ op' = "clear"
  /\ arg' = <<>>
  /\ res' = <<>>
  /\ UNCHANGED <<letter_vars, view_vars>>

\* s.push_back(value), within the precondition sz < capacity_
PushBack(value) ==
  /\ op = "idle"
  /\ sz < capacity_
  /\ LET s == small_string_push_back(data_, sz, value)
     IN  data_' = s.data_ /\ sz' = s.sz
  /\ op' = "push_back"
  /\ arg' = <<value>>
  /\ res' = <<>>
  /\ UNCHANGED <<letter_vars, view_vars>>

\* s.pop_back(), within the precondition sz > 0
PopBack ==
  /\ op = "idle"
  /\ sz > 0
  /\ LET s == small_string_pop_back(data_, sz)
     IN  data_' = s.data_ /\ sz' = s.sz
  /\ op' = "pop_back"
  /\ arg' = <<>>
  /\ res' = <<>>
  /\ UNCHANGED <<letter_vars, view_vars>>

\* s.resize(count, value) and s.resize(count) (value '\0'), within the
\* precondition count <= capacity_
Resize(count, value) ==
  /\ op = "idle"
  /\ count <= capacity_
  /\ LET s == small_string_resize(data_, sz, count, value)
     IN  data_' = s.data_ /\ sz' = s.sz
  /\ op' = "resize"
  /\ arg' = <<count, value>>
  /\ res' = <<>>
  /\ UNCHANGED <<letter_vars, view_vars>>

\* s.erase(index, count), within the precondition index <= size()
Erase(index, count) ==
  /\ op = "idle"
  /\ index <= sz
  /\ LET s == small_string_erase(data_, sz, index, count)
     IN  data_' = s.data_ /\ sz' = s.sz
  /\ op' = "erase"
  /\ arg' = <<index, count>>
  /\ res' = <<>>
  /\ UNCHANGED <<letter_vars, view_vars>>

\* s.insert(s.begin() + pos, begin_it, end_it), the insert of small_vector,
\* with the result within the capacity of the small_vector, capacity_ + 1
Insert(pos, range) ==
  /\ op = "idle"
  /\ pos <= sz
  /\ sz + Len(range) <= Len(data_)
  /\ LET s == small_vector_insert(data_, sz, pos, range)
     IN  data_' = s.data_ /\ sz' = s.sz
  /\ op' = "insert"
  /\ arg' = <<pos, range>>
  /\ res' = <<>>
  /\ UNCHANGED <<letter_vars, view_vars>>

\* s + rhs
Plus(rhs) ==
  /\ op = "idle"
  /\ LET s == small_string_plus(data_, sz, rhs)
     IN  res' = <<s.data_, s.sz>>
  /\ op' = "plus"
  /\ arg' = <<rhs>>
  /\ UNCHANGED <<letter_vars, string_vars, view_vars>>

\* A default-constructed small_string{}.
InitString == Init /\ T = "gap"

NextString ==
  \/ \E range \in Contents : Assign(range)
  \/ Clear
  \/ \E value \in StringChars : PushBack(value)
  \/ PopBack
  \/ \E count \in 0 .. capacity_, value \in StringChars : Resize(count, value)
  \/ \E index \in 0 .. capacity_, count \in 0 .. capacity_ : Erase(index, count)
  \/ \E pos \in 0 .. capacity_, range \in Contents : Insert(pos, range)
  \/ \E rhs \in Contents : Plus(rhs)
  \/ Return

SpecString == InitString /\ [][NextString]_vars

(***************************************************************************)
(* The operations on a single_pass_input_view and its iterators.  An       *)
(* iterator is named by its place in the sequence iterators.               *)
(***************************************************************************)

\* view = single_pass_input_view{urng}
ConstructView(_urng) ==
  /\ op = "idle"
  /\ state_ptr = <<>>
  /\ state_ptr' = <<state(_urng)>>
  /\ views' = <<1>>
  /\ op' = "construct"
  /\ arg' = <<_urng>>
  /\ res' = <<>>
  /\ UNCHANGED <<letter_vars, string_vars, iterators, yielded>>

\* single_pass_input_view copy{view}
CopyView(view) ==
  /\ op = "idle"
  /\ view \in 1 .. Len(views)
  /\ Len(views) < MaxViews
  /\ LET copy == copy_constructed(state_ptr, views[view])
     IN  /\ state_ptr' = copy.state_ptr
         /\ views' = Append(views, copy.view)
  /\ op' = "copy_view"
  /\ arg' = <<view>>
  /\ res' = <<>>
  /\ UNCHANGED <<letter_vars, string_vars, iterators, yielded>>

\* auto it = view.begin()
Begin(view) ==
  /\ op = "idle"
  /\ view \in 1 .. Len(views)
  /\ Len(iterators) < MaxIterators
  /\ iterators' = Append(iterators, view)
  /\ op' = "begin"
  /\ arg' = <<view>>
  /\ res' = <<Len(iterators) + 1>>
  /\ UNCHANGED <<letter_vars, string_vars, state_ptr, views, yielded>>

\* the iterator obtained last goes out of scope
DestroyIterator ==
  /\ op = "idle"
  /\ iterators # <<>>
  /\ iterators' = SubSeq(iterators, 1, Len(iterators) - 1)
  /\ op' = "destroy"
  /\ arg' = <<>>
  /\ res' = <<>>
  /\ UNCHANGED <<letter_vars, string_vars, state_ptr, views, yielded>>

\* *it, for an iterator that is not at the end
Dereference(it) ==
  /\ op = "idle"
  /\ it \in 1 .. Len(iterators)
  /\ ~iterator_eq_sentinel(it, end(iterators[it]))
  /\ op' = "dereference"
  /\ arg' = <<it>>
  /\ res' = <<deref(it)>>
  /\ UNCHANGED <<letter_vars, string_vars, view_vars>>

\* ++it and it++, for an iterator that is not at the end; the element moved
\* over is consumed
Increment(it) ==
  /\ op = "idle"
  /\ it \in 1 .. Len(iterators)
  /\ ~iterator_eq_sentinel(it, end(iterators[it]))
  /\ state_ptr' = pre_increment(it)
  /\ yielded' = Append(yielded, deref(it))
  /\ op' = "increment"
  /\ arg' = <<it>>
  /\ res' = <<>>
  /\ UNCHANGED <<letter_vars, string_vars, views, iterators>>

\* it == view.end() and view.end() == it
EqualsEnd(it) ==
  /\ op = "idle"
  /\ it \in 1 .. Len(iterators)
  /\ op' = "equals_end"
  /\ arg' = <<it>>
  /\ res' = <<iterator_eq_sentinel(it, end(iterators[it])),
              sentinel_eq_iterator(end(iterators[it]), it)>>
  /\ UNCHANGED <<letter_vars, string_vars, view_vars>>

\* A default-constructed view.
InitView == Init /\ T = "gap"

NextView ==
  \/ \E _urng \in Ranges : ConstructView(_urng)
  \/ \E view \in 1 .. MaxViews : CopyView(view)
  \/ \E view \in 1 .. MaxViews : Begin(view)
  \/ DestroyIterator
  \/ \E it \in 1 .. MaxIterators : Dereference(it)
  \/ \E it \in 1 .. MaxIterators : Increment(it)
  \/ \E it \in 1 .. MaxIterators : EqualsEnd(it)
  \/ Return

SpecView == InitView /\ [][NextView]_vars

(***************************************************************************)
(* The loop                                                                *)
(*   single_pass_input_view view{urng};                                    *)
(*   for (auto it = view.begin(); it != view.end(); ++it) { ... *it ... }  *)
(*   view.begin() == view.end();                                           *)
(* with op as the position of the program in it.                           *)
(***************************************************************************)

\* single_pass_input_view view{urng}
LoopConstruct(_urng) ==
  /\ op = "idle"
  /\ state_ptr = <<>>
  /\ state_ptr' = <<state(_urng)>>
  /\ views' = <<1>>
  /\ op' = "loop_init"
  /\ arg' = <<_urng>>
  /\ res' = <<>>
  /\ UNCHANGED <<letter_vars, string_vars, iterators, yielded>>

\* auto it = view.begin()
LoopBegin ==
  /\ op = "loop_init"
  /\ iterators' = <<1>>
  /\ op' = "loop_test"
  /\ res' = <<>>
  /\ UNCHANGED <<letter_vars, string_vars, arg, state_ptr, views, yielded>>

\* it != view.end(), evaluated as it == end and as end == it
LoopTest ==
  /\ op = "loop_test"
  /\ res' = <<iterator_eq_sentinel(1, end(1)), sentinel_eq_iterator(end(1), 1)>>
  /\ op' = IF iterator_eq_sentinel(1, end(1)) THEN "loop_done" ELSE "loop_body"
  /\ UNCHANGED <<letter_vars, string_vars, arg, view_vars>>

\* the body reads *it
LoopBody ==
  /\ op = "loop_body"
  /\ res' = <<deref(1)>>
  /\ op' = "loop_increment"
  /\ UNCHANGED <<letter_vars, string_vars, arg, view_vars>>

\* ++it: the element read by the body has been yielded
LoopIncrement ==
  /\ op = "loop_increment"
  /\ state_ptr' = pre_increment(1)
  /\ yielded' = Append(yielded, res[1])
  /\ res' = <<>>
  /\ op' = "loop_test"
  /\ UNCHANGED <<letter_vars, string_vars, arg, views, iterators>>

\* view.begin() == view.end() and view.end() == view.begin() after the loop
AfterLoop ==
  /\ op = "loop_done"
  /\ iterators' = Append(iterators, 1)
  /\ res' = <<iterator_eq_sentinel(1, end(1)), sentinel_eq_iterator(end(1), 1)>>
  /\ op' = "after_loop"
  /\ UNCHANGED <<letter_vars, string_vars, arg, state_ptr, views, yielded>>

NextLoop ==
  \/ \E _urng \in Ranges : LoopConstruct(_urng)
  \/ LoopBegin
  \/ LoopTest
  \/ LoopBody
  \/ LoopIncrement
  \/ AfterLoop

\* The program runs on: each statement is executed once it is reached.
SpecLoop == InitView /\ [][NextLoop]_vars /\ WF_vars(NextLoop)

(***************************************************************************)
(* The complement of nucleotide letters and of vectors of them.            *)
(***************************************************************************)

\* The nucleotide alphabets with a complement in the model.
NucleotideTypes == {"rna4", "dna4", "dna5"}

\* The longest vector of letters handed to views::complement.
MaxVectorLen == 5

\* The vectors of letters of an alphabet, as their ranks.
Vectors(S) == UNION {[1 .. n -> 0 .. primitive_size(S) - 1] : n \in 0 .. MaxVectorLen}

\* "..."_dna5: the vector of the letters assigned from the chars of a literal.
literal(S, chars) ==
  [i \in 1 .. Len(chars) |-> base_assign_char(S, value_initialised(S), Ord[chars[i]])]

\* a.complement() / bio::alphabet::complement(a)
ComplementLetter ==
  /\ op = "idle"
  /\ T \in NucleotideTypes
  /\ op' = "complement_letter"
  /\ arg' = <<>>
  /\ res' = <<complement(T, rank)>>
  /\ UNCHANGED <<string_vars, view_vars, T, rank, other>>

\* urange | views::complement | to<std::vector>()
ComplementView(urange) ==
  /\ op = "idle"
  /\ T \in NucleotideTypes
  /\ op' = "complement_view"
  /\ arg' = <<urange>>
  /\ res' = <<views_complement(T, urange)>>
  /\ UNCHANGED <<string_vars, view_vars, T, rank, other>>

\* A value-initialised nucleotide letter.
InitComplement == Init /\ T \in NucleotideTypes

NextComplement ==
  \/ \E c \in Char : AssignChar(c)
  \/ \E r \in Ranks : AssignRank(r)
  \/ ComplementLetter
  \/ \E urange \in Vectors(T) : ComplementView(urange)
  \/ Return

SpecComplement == InitComplement /\ [][NextComplement]_vars

(***************************************************************************)
(* Properties                                                              *)
(***************************************************************************)

\* The alphabets with a char interface that C1 names: the table-based primitives
\* and the composites.
TotalityTypes == {"aa20", "rna4", "phred68legacy", "gap"} \cup MaskedTypes \cup QualifiedTypes

\* C1: assign_char is total: after assign_char(c), for any of the 256 values of c,
\* on a letter of any of these alphabets (a value-initialised one included), the
\* letter's rank is a rank of the alphabet: 0 <= to_rank() < alphabet_size.
C1_Totality ==
  (op = "assign_char" /\ T \in TotalityTypes) =>
    /\ base_to_rank(T, rank) \in 0 .. alphabet_size(T) - 1
    /\ assign_char_to(T, value_initialised(T), arg[1]) \in 0 .. alphabet_size(T) - 1

\* C1 witness: a char with the high bit set (a negative signed char) was assigned
\* to a masked letter.
C1_Witness ==
  /\ op = "assign_char"
  /\ T = "masked_dna4"
  /\ arg[1] < 0
  /\ rank < alphabet_size(T)

\* C2: the rank invariant of base-derived alphabets: in every state reached by
\* assign_char (any char), assign_rank (r < alphabet_size), copy construction and
\* copy assignment from value-initialised letters, the stored rank of each letter
\* is below alphabet_size, so to_char() reads inside rank_to_char.
C2_RankInvariant ==
  /\ rank \in 0 .. alphabet_size(T) - 1
  /\ other \in 0 .. alphabet_size(T) - 1
  /\ alphabet_size(T) > 1 => {rank, other} \subseteq DOMAIN rank_to_char(T)

\* C2 witness: the highest rank of phred68legacy reached both letters by copies.
C2_Witness ==
  /\ op = "copy_assign"
  /\ T = "phred68legacy"
  /\ rank = phred68legacy_size - 1
  /\ other = phred68legacy_size - 1

\* The table-based primitive alphabets C3 names.
RoundTripTypes == {"aa20", "rna4", "phred68legacy", "gap"}

\* C3: the canonical chars round-trip: for each of these alphabets and every rank
\* r, to_rank(assign_char_to(to_char(assign_rank_to(r, T{})), T{})) == r; and
\* rank_to_char is injective.
C3_RoundTrip ==
  (op = "assign_rank" /\ T \in RoundTripTypes) =>
    /\ rank = arg[1]
    /\ \A ch \in to_char(T, rank) :
         base_to_rank(T, assign_char_to(T, value_initialised(T), ch)) = arg[1]
    /\ \A r2 \in 0 .. alphabet_size(T) - 1 :
         r2 # rank => to_char(T, r2) # to_char(T, rank)

\* C3 witness: rank 3 of rna4, printed 'U', which the dna4 table shared by rna4
\* takes back to rank 3.
C3_Witness ==
  /\ op = "assign_rank"
  /\ T = "rna4"
  /\ rank = 3
  /\ to_char(T, rank) = {Ord["U"]}

\* The component ranks decoded from the composite rank r: get<i> for every i.
component_ranks(Ty, r) ==
  [i \in 1 .. component_count(Ty) |-> to_component_rank(Ty, r, i - 1)]

\* The product of the component sizes of a tuple composite.
component_size_product(Ty) ==
  LET prod[i \in 0 .. component_count(Ty)] ==
        IF i = 0 THEN 1 ELSE prod[i - 1] * component_size(Ty, i - 1)
  IN  prod[component_count(Ty)]

\* C4: the tuple composite round trip: alphabet_size is the product of the
\* component sizes; a composite constructed from valid component ranks has a rank
\* below alphabet_size and each get<i> decodes to the rank it was constructed
\* from; every rank below alphabet_size is the encoding of the components decoded
\* from it (with the former: a bijection); and qualified::assign_char(c) writes a
\* rank whose get<0> is the rank of c in the sequence alphabet.
C4_TupleRoundTrip ==
  T \in TupleTypes =>
    /\ alphabet_size(T) = component_size_product(T)
    /\ rank < alphabet_size(T)
    /\ rank_sum(T, component_ranks(T, rank)) = rank
    /\ op = "construct" => component_ranks(T, rank) = arg
    /\ (op = "assign_char" /\ T \in QualifiedTypes) =>
         to_component_rank(T, rank, 0)
           = base_assign_char(sequence_alphabet_type(T),
                              value_initialised(sequence_alphabet_type(T)), arg[1])

\* C4 witness: qualified<rna4, phred68legacy> constructed from the highest rank of
\* each component has the highest composite rank.
C4_Witness ==
  /\ op = "construct"
  /\ T = "qualified_rna4_phred68legacy"
  /\ arg = <<rna4_size - 1, phred68legacy_size - 1>>
  /\ rank = alphabet_size(T) - 1

\* C5: the first component is the least significant digit: cum[0] = 1; the size
\* of qualified<dna4, phred42> is 168, sequence rank 2 with quality rank 10 is the
\* composite rank 42, whether constructed or reached by assign_char('G') on a
\* letter of quality rank 10, and rank 42 decodes to (2, 10);
\* structured_rna<rna4, dot_bracket3> of component ranks (2, 1) has rank 6.
C5_EncodingDirection ==
  /\ T \in TupleTypes => cummulative_alph_sizes(T)[0] = 1
  /\ T = "qualified_dna4_phred42" =>
       /\ alphabet_size(T) = 168
       /\ (op = "construct" /\ arg = <<2, 10>>) => rank = 42
       /\ (op = "assign_char" /\ arg = <<Ord["G"]>> /\ to_component_rank(T, rank, 1) = 10)
            => rank = 42
       /\ rank = 42 => component_ranks(T, rank) = <<2, 10>>
  /\ (T = "structured_rna_rna4_dot_bracket3" /\ op = "construct" /\ arg = <<2, 1>>)
       => rank = 6

\* C5 witness: assign_char('G') on a qualified<dna4, phred42> of quality rank 10
\* gave the composite rank 42.
C5_Witness ==
  /\ op = "assign_char"
  /\ T = "qualified_dna4_phred42"
  /\ arg = <<Ord["G"]>>
  /\ rank = 42

\* C6: component independence: assign_component_rank<i>(r) leaves get<i> at rank r
\* and every other get<j> as it was, whatever the other components were; so does
\* qualified::assign_phred for get<1> (the rank of the phred value) and get<0>, and
\* qualified::assign_char leaves get<1> as it was.
C6_ComponentIndependence ==
  [][/\ op' = "assign_component_rank" =>
          /\ to_component_rank(T, rank', arg'[1]) = arg'[2]
          /\ \A j \in 0 .. component_count(T) - 1 :
               j # arg'[1] => to_component_rank(T, rank', j) = to_component_rank(T, rank, j)
     /\ op' = "assign_phred" =>
          /\ to_component_rank(T, rank', 1)
               = quality_phred_to_rank(primitive_size(quality_alphabet_type(T)),
                                       offset_phred(quality_alphabet_type(T)))[arg'[1]]
          /\ to_component_rank(T, rank', 0) = to_component_rank(T, rank, 0)
     /\ (op' = "assign_char" /\ T \in QualifiedTypes) =>
          to_component_rank(T, rank', 1) = to_component_rank(T, rank, 1)
    ]_vars

\* C6 witness: get<0> of a qualified<rna4, phred68legacy> was set to rank 3 while
\* get<1> had its highest rank.
C6_Witness ==
  /\ op = "assign_component_rank"
  /\ T = "qualified_rna4_phred68legacy"
  /\ arg = <<0, rna4_size - 1>>
  /\ to_component_rank(T, rank, 1) = phred68legacy_size - 1

\* C7: the projections of qualified<S, Q>: to_char() is the char of the sequence
\* component get<0> and to_phred() the phred value of the quality component get<1>,
\* for every composite rank.
C7_Projections ==
  /\ (op = "to_char" /\ T \in QualifiedTypes) =>
       res[1] = base_to_char(sequence_alphabet_type(T), to_component_rank(T, rank, 0))
  /\ (op = "to_phred" /\ T \in QualifiedTypes) =>
       res[1] = quality_rank_to_phred(primitive_size(quality_alphabet_type(T)),
                                      offset_phred(quality_alphabet_type(T)))
                  [to_component_rank(T, rank, 1)]

\* The rank of to_rank(assign_char_to(ch, T{})).
rank_of_char(Ty, ch) == base_to_rank(Ty, assign_char_to(Ty, value_initialised(Ty), ch))

lossless(Ty, c) ==
  \A ch \in to_char(Ty, assign_char_to(Ty, value_initialised(Ty), c)) : ch = c

C10_OrderConsistency ==
  op = "compare" =>
    /\ res[1] <=> (base_to_rank(T, rank) = base_to_rank(T, other))
    /\ res[2] <=> (base_to_rank(T, rank) < base_to_rank(T, other))
    /\ res[1] => ~res[2] /\ ~base_less(T, other, rank)
    /\ ~res[1] => (res[2] <=> ~base_less(T, other, rank))
    /\ (/\ T = "aa20"
        /\ rank = assign_char_to(T, value_initialised(T), Ord["A"])
        /\ other = assign_char_to(T, value_initialised(T), Ord["B"]))
         => /\ res = <<FALSE, TRUE>>
            /\ to_char(T, other) = {Ord["D"]}

\* C10 witness: the aa20 letters assigned from 'A' and from 'B' were compared.
C10_Witness ==
  /\ op = "compare"
  /\ T = "aa20"
  /\ rank = aa20_char_to_rank[Ord["A"]]
  /\ other = aa20_char_to_rank[Ord["B"]]
  /\ res = <<FALSE, TRUE>>

\* C11: the size 1 specialisation (gap): no step changes a letter; after any
\* assign_char(c) and assign_rank(r), whatever the arguments, to_rank() is 0 and
\* to_char() is char_value ('-'); two letters compare == , <= and >= true and <
\* and > false.
C11_SizeOne ==
  [][alphabet_size(T) = 1 =>
       /\ rank' = rank /\ other' = other
       /\ base_to_rank(T, rank') = 0 /\ base_to_rank(T, other') = 0
       /\ to_char(T, rank') = {Ord["-"]} /\ to_char(T, other') = {Ord["-"]}
       /\ op' # "abort"
       /\ op' = "compare" => res' = <<TRUE, FALSE>>
       /\ op' = "compare_order" => res' = <<FALSE, TRUE, TRUE>>
    ]_vars

\* C11 witness: a gap was assigned the rank 256 and is still the letter '-' of rank 0.
C11_Witness ==
  /\ T = "gap"
  /\ op = "assign_rank_out_of_range"
  /\ arg = <<256>>
  /\ rank = 0
  /\ to_char(T, rank) = {gap_char_value}

\* C12: for an alphabet of size > 1, no call of assign_rank(r) with an integer
\* r >= alphabet_size returns: each fails the assertion.
C12_OutOfRangeAsserts ==
  ~(op = "assign_rank_out_of_range" /\ alphabet_size(T) > 1)

\* The chars C13 names: the IUPAC ambiguity codes and some chars that are no
\* nucleotide codes at all.
iupac_ambiguity_codes ==
  {Ord[x] : x \in {"R", "Y", "S", "W", "K", "M", "B", "D", "H", "V"}}

\* The chars a 5-letter nucleotide alphabet knows: its letters, T and U, in both
\* cases.
nucleotide5_chars ==
  {Ord[x] : x \in {"A", "C", "G", "T", "U", "N", "a", "c", "g", "t", "u", "n"}}

\* C13: dna5 and rna5 (letters A,C,G,T,N, for rna5 U in place of T, at ranks 0-4):
\* assign_char('T') and assign_char('t') give rank 3, and rna5 prints 'T' and 'U'
\* alike as 'U'; every IUPAC ambiguity code and every char that is no nucleotide,
\* '!', 'F' and 'O' among them, gives rank 4, the letter N; rank 4 prints 'N'.
C13_FiveLetterNucleotides ==
  T \in {"dna5", "rna5"} =>
    /\ (op = "assign_char" /\ arg[1] \in {Ord["T"], Ord["t"]}) => rank = 3
    /\ (op = "assign_char" /\ T = "rna5" /\ arg[1] \in {Ord["T"], Ord["U"]}) =>
         rank = 3 /\ to_char(T, rank) = {Ord["U"]}
    /\ (op = "assign_char" /\ T = "dna5" /\ arg[1] \in {Ord["T"], Ord["U"]}) =>
         rank = 3 /\ to_char(T, rank) = {Ord["T"]}
    /\ (op = "assign_char"
          /\ arg[1] \in iupac_ambiguity_codes \cup {Ord["!"], Ord["F"], Ord["O"]}
                          \cup (Char \ nucleotide5_chars)) =>
         rank = 4 /\ to_char(T, rank) = {Ord["N"]}
    /\ (op = "assign_rank" /\ arg = <<4>>) => to_char(T, rank) = {Ord["N"]}

\* C13 witness: rna5 was assigned 'T' and prints 'U'.
C13_Witness ==
  /\ op = "assign_char"
  /\ T = "rna5"
  /\ arg = <<Ord["T"]>>
  /\ rank = 3
  /\ to_char(T, rank) = {Ord["U"]}

\* The letter that the documentation of aa20 has the char c converted to: the
\* canonical letters in either case are themselves, B is D, J and O are L, U is C,
\* Z is E, X is S, '*' is W, and everything else is S.
aa20_converts_to(c) ==
  LET u == to_upper(c)
  IN  IF \E i \in 1 .. aa20_size : Ord[aa20_letters[i]] = u THEN u
      ELSE IF u = Ord["B"] THEN Ord["D"]
      ELSE IF u \in {Ord["J"], Ord["O"]} THEN Ord["L"]
      ELSE IF u = Ord["U"] THEN Ord["C"]
      ELSE IF u = Ord["Z"] THEN Ord["E"]
      ELSE IF c = Ord["*"] THEN Ord["W"]
      ELSE Ord["S"]

C16_Phred68Legacy ==
  T = "phred68legacy" =>
    /\ alphabet_size(T) = 68
    /\ to_char(T, 67) = {Ord["~"]}
    /\ {quality_to_phred(T, r) : r \in 0 .. alphabet_size(T) - 1} = -5 .. 62
    /\ (op = "assign_char" /\ arg[1] >= Ord[";"] /\ arg[1] <= Ord["~"]) =>
         /\ to_char(T, rank) = {arg[1]}
         /\ base_to_rank(T, rank) = arg[1] - Ord[";"]
         /\ quality_to_phred(T, rank) = (arg[1] - Ord[";"]) - 5

\* C16 witness: '~' was assigned and is rank 67 of phred score 62.
C16_Witness ==
  /\ op = "assign_char"
  /\ T = "phred68legacy"
  /\ arg = <<Ord["~"]>>
  /\ rank = 67
  /\ quality_to_phred(T, rank) = 62

\* C17: qualified::complement() keeps the quality component get<1> and
\* complements the sequence component get<0>, for every value of a qualified
\* alphabet over a nucleotide alphabet; the complement of the complement is the
\* original value.
C17_QualifiedComplement ==
  op = "complement" =>
    /\ to_component_rank(T, rank, 1) = to_component_rank(T, arg[1], 1)
    /\ to_component_rank(T, rank, 0)
         = complement(sequence_alphabet_type(T), to_component_rank(T, arg[1], 0))
    /\ to_component_rank(T, rank, 0) # to_component_rank(T, arg[1], 0)
    /\ qualified_complement(T, rank) = arg[1]

\* C17 witness: {'C'_rna4, highest quality} was complemented to {'G'_rna4, highest
\* quality}.
C17_Witness ==
  /\ op = "complement"
  /\ T = "qualified_rna4_phred68legacy"
  /\ component_ranks(T, arg[1]) = <<1, phred68legacy_size - 1>>
  /\ component_ranks(T, rank) = <<2, phred68legacy_size - 1>>

\* C18: in every state reached from construction by the operations of
\* small_string, the storage holds '\0' at index size() (in the string and in
\* the result of operator+), so that c_str() reads back the chars str()
\* returns (for a string that holds no '\0' among its chars).
C18_NullTerminated ==
  /\ sz < Len(data_) /\ data_[sz + 1] = 0
  /\ op = "plus" => (res[2] < Len(res[1]) /\ res[1][res[2] + 1] = 0)
  /\ (\A i \in 1 .. sz : data_[i] # 0) => c_str(data_) = str(data_, sz)

\* C19: after k elements have been consumed by incrementing any iterators of
\* the view, every iterator of the view, and so the one a later begin()
\* returns, is at position k of the underlying range and dereferences to its
\* element k (not to element 0); a begin() after another begin() with no
\* increment in between returns the same position.
C19_BeginReflectsConsumption ==
  state_ptr # <<>> =>
    /\ \A it \in 1 .. Len(iterators) : cached(it) = Len(yielded)
    /\ op = "begin" =>
         /\ cached(res[1]) = Len(yielded)
         /\ Len(yielded) < Len(state_ptr[1].urng) =>
              deref(res[1]) = state_ptr[1].urng[Len(yielded) + 1]
    /\ op = "dereference" => res = <<state_ptr[1].urng[Len(yielded) + 1]>>

\* A second iterator obtained by begin() after two increments of the first,
\* over a range of three different elements.
C19_Witness ==
  /\ op = "begin"
  /\ res = <<2>>
  /\ Len(yielded) = 2
  /\ state_ptr # <<>>
  /\ state_ptr[1].urng = <<1, 2, 3>>
  /\ deref(res[1]) = 3

\* C20: over an underlying range of n elements the loop over the view reads
\* the elements in the underlying order, each once; its test (begin() ==
\* end(), the same in both argument orders) is false as long as fewer than n
\* increments have happened and true after exactly n; the loop ends, after n
\* increments, and begin() == end() is still true then.
C20_Exhaustion ==
  /\ [](state_ptr # <<>> =>
          /\ Len(yielded) <= Len(state_ptr[1].urng)
          /\ yielded = SubSeq(state_ptr[1].urng, 1, Len(yielded))
          /\ op \in {"loop_body", "loop_done"} =>
               /\ res[1] = (Len(yielded) = Len(state_ptr[1].urng))
               /\ res[2] = res[1]
          /\ op = "loop_body" => Len(yielded) < Len(state_ptr[1].urng)
          /\ op \in {"loop_done", "after_loop"} => yielded = state_ptr[1].urng
          /\ op = "after_loop" => res = <<TRUE, TRUE>>)
  /\ <>(op = "loop_done")
  /\ [](op = "loop_done" => <>[](op = "after_loop"))

\* The loop over a range of three different elements has ended.
C20_Witness ==
  /\ op = "after_loop"
  /\ state_ptr # <<>>
  /\ state_ptr[1].urng = <<3, 1, 2>>
  /\ yielded = <<3, 1, 2>>
  /\ res = <<TRUE, TRUE>>

\* The reference string: resize keeps the first n chars, or appends ch up to
\* length n.
reference_resize(s, n, ch) ==
  IF n <= Len(s) THEN SubSeq(s, 1, n) ELSE s \o [i \in 1 .. n - Len(s) |-> ch]

\* The reference string: erase removes min(count, size - index) chars from index on.
reference_erase(s, index, count) ==
  SubSeq(s, 1, index) \o SubSeq(s, index + min(count, Len(s) - index) + 1, Len(s))

\* C21: every modifier of small_string whose assertions hold changes size()
\* and the chars [0, size()) as the same operation changes a reference
\* character sequence: assign, push_back, pop_back, resize(n, ch) (resize(n)
\* is ch = '\0'), clear, erase(index, count) (erase() is index 0 and count
\* max_size()), and a + b is the chars of a followed by those of b.  The
\* strings these operations reach are within the capacity.
C21_ReferenceString ==
  [][LET old == str(data_, sz)
         new == str(data_', sz')
     IN  sz <= capacity_ =>
         /\ op' = "assign" => new = arg'[1]
         /\ op' = "push_back" => new = Append(old, arg'[1])
         /\ op' = "pop_back" => new = SubSeq(old, 1, Len(old) - 1)
         /\ op' = "resize" => new = reference_resize(old, arg'[1], arg'[2])
         /\ op' = "clear" => new = <<>>
         /\ op' = "erase" =>
              /\ new = reference_erase(old, arg'[1], arg'[2])
              /\ arg' = <<0, capacity_>> => new = <<>>
         /\ op' = "plus" =>
              /\ str(res'[1], res'[2]) = old \o arg'[1]
              /\ res'[2] = Len(old) + Len(arg'[1])
              /\ new = old
         /\ op' \notin {"assign", "push_back", "pop_back", "resize", "clear", "erase", "insert"}
              => new = old]_vars

\* The middle char of a string of three has been erased, and a string of one
\* has been grown to three by resize.
C21_Witness ==
  \/ /\ op = "erase"
     /\ arg = <<1, 1>>
     /\ str(data_, sz) = <<Ord["a"], Ord["b"]>>
     /\ data_[3] = Ord["b"]
  \/ /\ op = "resize"
     /\ arg = <<3, Ord["b"]>>
     /\ str(data_, sz) = <<Ord["a"], Ord["b"], Ord["b"]>>

\* C22: on a qualified<S, Q>, assign_char(c) sets get<0> to S{}.assign_char(c)
\* and leaves get<1> and to_phred() as they were; assign_phred(p) sets get<1>
\* to the letter of phred p and leaves get<0> and to_char() as they were; both
\* leave a rank below |S| * |Q|.
C22_FrameEffect ==
  [][(T \in QualifiedTypes =>
       /\ op' = "assign_char" =>
            /\ to_component_rank(T, rank', 0)
                 = base_to_rank(sequence_alphabet_type(T),
                     base_assign_char(sequence_alphabet_type(T),
                                      value_initialised(sequence_alphabet_type(T)), arg'[1]))
            /\ to_component_rank(T, rank', 1) = to_component_rank(T, rank, 1)
            /\ qualified_to_phred(T, rank') = qualified_to_phred(T, rank)
            /\ rank' < alphabet_size(T)
       /\ op' = "assign_phred" =>
            /\ to_component_rank(T, rank', 1)
                 = quality_phred_to_rank(primitive_size(quality_alphabet_type(T)),
                                         offset_phred(quality_alphabet_type(T)))[arg'[1]]
            /\ to_component_rank(T, rank', 0) = to_component_rank(T, rank, 0)
            /\ \A before \in qualified_to_char(T, rank), after \in qualified_to_char(T, rank') :
                 after = before
            /\ rank' < alphabet_size(T))]_vars

\* C23: for every value x of a masked<S>, x.to_char() is the char of the
\* sequence component get<0>(x) when the mask component get<1>(x) is unmasked,
\* and the lower case of that char when it is masked, with the components
\* decoded by the tuple encoding of (S, mask).
C23_MaskedToChar ==
  (T \in MaskedTypes /\ op = "to_char") =>
     res[1] = IF to_component_rank(T, rank, 1) = 0
                THEN base_to_char(sequence_alphabet_type(T), to_component_rank(T, rank, 0))
                ELSE to_lower(base_to_char(sequence_alphabet_type(T),
                                           to_component_rank(T, rank, 0)))

\* to_char() of the masked G of masked<dna4> has returned 'g'.
C23_Witness ==
  /\ T = "masked_dna4"
  /\ op = "to_char"
  /\ to_component_rank(T, rank, 0) = 2
  /\ to_component_rank(T, rank, 1) = 1
  /\ res = <<Ord["g"]>>

\* C24: masked<S>::assign_char(c) sets both components from c alone, whatever
\* the letter was before: a lower-case c gives the sequence letter
\* S{}.assign_char(to_upper(c)) and the mask MASKED, every other char gives
\* S{}.assign_char(c) and UNMASKED; the rank is below 2 * |S|.
C24_MaskedAssignChar ==
  (T \in MaskedTypes /\ op = "assign_char") =>
     LET S == sequence_alphabet_type(T)
         c == arg[1]
     IN  /\ rank < 2 * primitive_size(S)
         /\ is_lower(c) =>
              /\ to_component_rank(T, rank, 0)
                   = base_to_rank(S, base_assign_char(S, value_initialised(S), to_upper(c)))
              /\ to_component_rank(T, rank, 1) = 1
         /\ ~is_lower(c) =>
              /\ to_component_rank(T, rank, 0)
                   = base_to_rank(S, base_assign_char(S, value_initialised(S), c))
              /\ to_component_rank(T, rank, 1) = 0

\* 'a' has been assigned to a masked<phred68legacy>: the masked letter of 'A'.
C24_Witness ==
  /\ T = "masked_phred68legacy"
  /\ op = "assign_char"
  /\ arg = <<Ord["a"]>>
  /\ to_component_rank(T, rank, 0) = Ord["A"] - Ord[";"]
  /\ to_component_rank(T, rank, 1) = 1

\* C25: for every masked<S> and every rank r of it,
\* to_rank(assign_char(to_char(assign_rank(r)))) == r, in both halves of the
\* ranks, also when the chars of S are no letters.
C25_MaskedRoundTrip ==
  (T \in MaskedTypes /\ op = "assign_rank") =>
     rank_of_char(T, masked_to_char(T, rank)) = rank

\* C26: rna4::complement() gives the letter of rank to_rank() XOR 3 (A and U
\* exchanged, C and G exchanged), a rank below 4, and the same letter as the
\* table-based complement of nucleotide_base; for every nucleotide letter the
\* complement of the complement is the letter; views::complement works letter
\* by letter, complement("ACGTA") is "TGCAT" and complement("TGCAT") is "ACGTA".
C26_Complement ==
  /\ op = "complement_letter" =>
       /\ complement(T, res[1]) = rank
       /\ res[1] < alphabet_size(T)
       /\ T = "rna4" =>
            /\ res[1] = 3 - rank
            /\ res[1] = nucleotide_base_complement(T, rank)
            /\ rank_to_char(T)[rank] = Ord["A"] <=> rank_to_char(T)[res[1]] = Ord["U"]
            /\ rank_to_char(T)[rank] = Ord["C"] <=> rank_to_char(T)[res[1]] = Ord["G"]
  /\ op = "complement_view" =>
       /\ Len(res[1]) = Len(arg[1])
       /\ \A i \in 1 .. Len(arg[1]) : res[1][i] = complement(T, arg[1][i])
       /\ views_complement(T, res[1]) = arg[1]
       /\ arg[1] = literal(T, <<"A", "C", "G", "T", "A">>)
            => res[1] = literal(T, <<"T", "G", "C", "A", "T">>)
       /\ arg[1] = literal(T, <<"T", "G", "C", "A", "T">>)
            => res[1] = literal(T, <<"A", "C", "G", "T", "A">>)

\* views::complement has been applied to "ACGTA"_dna5.
C26_Witness ==
  /\ T = "dna5"
  /\ op = "complement_view"
  /\ arg = <<literal(T, <<"A", "C", "G", "T", "A">>)>>
  /\ res = <<literal(T, <<"T", "G", "C", "A", "T">>)>>

\* C27: in every state reached through the modifiers of small_string and the
\* members inherited from small_vector<char, capacity_ + 1> whose assertions
\* pass, size() <= capacity() = max_size() = capacity_, so that index size()
\* lies inside the storage of capacity_ + 1 chars; likewise for the result of
\* operator+ and its capacity.
C27_Capacity ==
  /\ sz <= capacity_
  /\ sz < Len(data_)
  /\ op = "plus" => (res[2] <= Len(res[1]) - 1)

\* C28: all iterators obtained from a single_pass_input_view and all copies of
\* the view refer to one cached position: there is one state object, every
\* view points to it, every iterator is at the number of elements consumed so
\* far, begin() of every copy returns an iterator at that position, an
\* increment of any one iterator advances every iterator by one element, and
\* the elements consumed are the underlying range's elements in order, each
\* once.
C28_SharedPosition ==
  [][( /\ state_ptr' # <<>> =>
            /\ \A view \in 1 .. Len(views') : views'[view] = 1
            /\ \A it \in 1 .. Len(iterators') :
                 state_ptr'[views'[iterators'[it]]].cached_urng_iter = Len(yielded')
            /\ yielded' = SubSeq(state_ptr'[1].urng, 1, Len(yielded'))
       /\ op' = "begin" =>
            state_ptr'[views'[iterators'[res'[1]]]].cached_urng_iter = Len(yielded')
       /\ op' = "increment" =>
            \A it \in 1 .. Len(iterators) :
              /\ state_ptr'[views'[iterators'[it]]].cached_urng_iter = cached(it) + 1
              /\ cached(it) + 1 < end(iterators[it]) =>
                   state_ptr'[views'[iterators'[it]]].urng[cached(it) + 2]
                     = state_ptr[views[iterators[it]]].urng[cached(it) + 2]
       /\ op' = "dereference" =>
            res' = <<state_ptr'[1].urng[Len(yielded') + 1]>> )]_vars

\* An iterator of the view and an iterator of a copy of the view, one of them
\* just incremented for the second time, over three different elements; the
\* other one dereferences to the third element.
C28_Witness ==
  /\ op = "increment"
  /\ Len(views) = 2
  /\ iterators = <<1, 2>>
  /\ arg = <<1>>
  /\ yielded = <<1, 2>>
  /\ state_ptr # <<>>
  /\ state_ptr[views[2]].urng = <<1, 2, 3>>
  /\ deref(2) = 3

(***************************************************************************)
(* std::hash of a range of semialphabet letters.  A size_t is written as   *)
(* its size_t_limbs digits of base LimbBase, least significant first, so   *)
(* that the 64 bit arithmetic is computed at its width.                    *)
(***************************************************************************)

LimbBase == 65536

size_t_limbs == 4

\* The number 0 and a number below LimbBase, in n limbs.
limbs_of(v, n) == [i \in 1 .. n |-> IF i = 1 THEN v ELSE 0]

RECURSIVE mul_add_from(_, _, _, _)
mul_add_from(x, m, carry, i) ==
  IF i > Len(x) THEN <<>>
  ELSE LET v == x[i] * m + carry
       IN  <<v % LimbBase>> \o mul_add_from(x, m, v \div LimbBase, i + 1)

\* x * m + a in Len(x) limbs: unsigned arithmetic, the carry out of the last
\* limb is dropped.
mul_add(x, m, a) == mul_add_from(x, m, a, 1)

RECURSIVE add_from(_, _, _, _)
add_from(x, y, carry, i) ==
  IF i > Len(x) THEN <<>>
  ELSE LET v == x[i] + y[i] + carry
       IN  <<v % LimbBase>> \o add_from(x, y, v \div LimbBase, i + 1)

\* x + y in Len(x) limbs.
add_limbs(x, y) == add_from(x, y, 0, 1)

\* std::hash<alphabet_t>{}(character): the letter's rank.
letter_hash(S, r) == base_to_rank(S, r)

\* A loop body that adds the letter's hash before it multiplies.
hash_step_add_first(S, result, character) ==
  mul_add(mul_add(result, 1, letter_hash(S, character)), alphabet_size(S), 0)

\* result *= size<alphabet_t>; result += h(character);
hash_step(S, result, character) ==
  mul_add(mul_add(result, alphabet_size(S), 0), 1, letter_hash(S, character))

RECURSIVE hash_loop(_, _, _, _)
hash_loop(S, range, i, result) ==
  IF i > Len(range) THEN result
  ELSE hash_loop(S, range, i + 1, hash_step(S, result, range[i]))

\* std::hash<urng_t>{}(range)
std_hash(S, range) == hash_loop(S, range, 1, limbs_of(0, size_t_limbs))

\* The alphabets whose ranges are hashed: of size 1 and of size 272.
HashTypes == {"gap", "qualified_rna4_phred68legacy"}

\* The longest range that is hashed.
MaxHashLen == 8

\* The letters of the hashed ranges: the first and the last of the alphabet.
HashRanks(S) == {0, alphabet_size(S) - 1}

HashRangesOfLength(S, n) == [1 .. n -> HashRanks(S)]

HashRanges(S) == UNION {HashRangesOfLength(S, n) : n \in 0 .. MaxHashLen}

\* std::hash<urng_t>{}(range)
Hash(range) ==
  /\ op = "idle"
  /\ op' = "hash"
  /\ arg' = <<range>>
  /\ res' = <<std_hash(T, range)>>
  /\ UNCHANGED <<letter_vars, string_vars, view_vars>>

InitHash == Init /\ T \in HashTypes

NextHash ==
  \/ \E range \in HashRanges(T) : Hash(range)
  \/ Return

SpecHash == InitHash /\ [][NextHash]_vars

\* The limbs of numbers up to the sum of MaxHashLen + 1 terms below 272^10.
wide_limbs == 8

\* size^k, not reduced.
RECURSIVE power(_, _)
power(S, k) ==
  IF k = 0 THEN limbs_of(1, wide_limbs)
  ELSE mul_add(power(S, k - 1), alphabet_size(S), 0)

\* The sum of rank_i * size^(n-1-i) over the letters from the i-th on, not reduced.
RECURSIVE horner_sum(_, _, _)
horner_sum(S, range, i) ==
  IF i > Len(range) THEN limbs_of(0, wide_limbs)
  ELSE add_limbs(mul_add(power(S, Len(range) - i), base_to_rank(S, range[i]), 0),
                 horner_sum(S, range, i + 1))

\* x modulo 2^64
modulo_size_t(x) == SubSeq(x, 1, size_t_limbs)

\* x <= 2^64
fits_size_t(x) ==
  \/ \A i \in size_t_limbs + 1 .. Len(x) : x[i] = 0
  \/ /\ x[size_t_limbs + 1] = 1
     /\ \A i \in 1 .. Len(x) : i # size_t_limbs + 1 => x[i] = 0

\* C29: the hash of a range is the sum of rank_i * size^(n-1-i) modulo 2^64;
\* among the ranges of one length n with size^n <= 2^64 only the range itself
\* has its hash; the hash of the empty range is 0.
C29_RangeHash ==
  op = "hash" =>
    /\ res[1] = modulo_size_t(horner_sum(T, arg[1], 1))
    /\ fits_size_t(power(T, Len(arg[1]))) =>
         \A range \in HashRangesOfLength(T, Len(arg[1])) :
           (std_hash(T, range) = res[1])
             <=> (\A i \in 1 .. Len(range) :
                    base_to_rank(T, range[i]) = base_to_rank(T, arg[1][i]))
    /\ arg[1] = <<>> => res[1] = limbs_of(0, size_t_limbs)

\* The hash of a range of 8 letters of an alphabet of size 272, whose sum is
\* 2^64 or more and whose hash is the sum's low 64 bits.
C29_Witness ==
  /\ op = "hash"
  /\ T = "qualified_rna4_phred68legacy"
  /\ Len(arg[1]) = MaxHashLen
  /\ arg[1][1] = 271
  /\ arg[1][MaxHashLen] = 271
  /\ ~fits_size_t(horner_sum(T, arg[1], 1))
  /\ res[1] = modulo_size_t(horner_sum(T, arg[1], 1))
  /\ res[1] # limbs_of(0, size_t_limbs)

(***************************************************************************)
(* list_traits::at<idx, list_t>.  idx is a ptrdiff_t and size<list_t> a    *)
(* size_t: a comparison of the two converts the signed operand to size_t,  *)
(* which is written in limbs as above.  A type list is the sequence of its *)
(* types' names.                                                           *)
(***************************************************************************)

\* The types that occur in the type lists.
TypeNames == {"int", "double", "bool &"}

\* The longest type list.
MaxListLen == 3

\* The largest magnitude of an index.
MaxIdx == 5

TypeLists == UNION {[1 .. n -> TypeNames] : n \in 0 .. MaxListLen}

\* The conversion of a ptrdiff_t of magnitude below LimbBase to size_t: a
\* negative value v becomes 2^64 + v.
to_size_t(v) ==
  IF v >= 0 THEN limbs_of(v, size_t_limbs)
  ELSE [i \in 1 .. size_t_limbs |-> IF i = 1 THEN LimbBase + v ELSE LimbBase - 1]

RECURSIVE less_from(_, _, _)
less_from(x, y, i) ==
  IF i = 0 THEN FALSE
  ELSE IF x[i] # y[i] THEN x[i] < y[i]
  ELSE less_from(x, y, i - 1)

\* x < y and x <= y of two size_t.
less(x, y) == less_from(x, y, Len(x))

less_equal(x, y) == ~less(y, x)

\* list_traits::size<type_list<pack_t...>> = sizeof...(pack_t)
list_size(list) == to_size_t(Len(list))

\* The requires-clause of list_traits::at:
\* (idx >= 0 && idx < size<list_t>) || (-idx <= size<list_t>)
at_constraint(idx, list) ==
  \/ idx >= 0 /\ less(to_size_t(idx), list_size(list))
  \/ less_equal(to_size_t(-idx), list_size(list))

\* pack_traits::at<idx, pack_t...>: the type at position idx, from the end
\* for a negative idx; "none" where the pack has no such position.
pack_traits_at(idx, pack) ==
  LET position == IF idx >= 0 THEN idx + 1 ELSE Len(pack) + idx + 1
  IN  IF position \in 1 .. Len(pack) THEN pack[position] ELSE "none"

\* list_traits::detail::at<idx>(list_t{})
detail_at(idx, list) == pack_traits_at(idx, list)

\* using at = typename decltype(detail::at<idx>(list_t{}))::type
At(idx, list) ==
  /\ op = "idle"
  /\ op' = "at"
  /\ arg' = <<idx, list>>
  /\ res' = IF at_constraint(idx, list) THEN <<TRUE, detail_at(idx, list)>>
            ELSE <<FALSE>>
  /\ UNCHANGED <<letter_vars, string_vars, view_vars>>

InitAt == Init /\ T = "gap"

NextAt ==
  \/ \E idx \in -MaxIdx .. MaxIdx : \E list \in TypeLists : At(idx, list)
  \/ Return

SpecAt == InitAt /\ [][NextAt]_vars

\* C30: at<idx, list> is accepted by its constraint exactly when
\* -size <= idx < size; an accepted idx >= 0 yields the type at position idx,
\* an accepted idx < 0 the type at position size + idx; every positive
\* idx >= size and every idx < -size is rejected.
C30_AtAccepts ==
  op = "at" =>
    LET idx == arg[1]
        list == arg[2]
        lsize == Len(list)
    IN  /\ res[1] <=> (-lsize <= idx /\ idx < lsize)
        /\ (res[1] /\ idx >= 0) => res[2] = list[idx + 1]
        /\ (res[1] /\ idx < 0) => res[2] = list[lsize + idx + 1]
        /\ (idx > 0 /\ idx >= lsize) => ~res[1]
        /\ idx < -lsize => ~res[1]

====
